---- MODULE Spec2Model ----
(***************************************************************************)
(* Model of the event-driven messaging backbone of fastapi-micro:          *)
(*   - the Notification entity and NotificationService                     *)
(*     (src/src/services/notification/domain)                              *)
(*   - the consume loops and the event registry                            *)
(*     (src/src/shared/kafka_client.py, src/src/shared/events.py)          *)
(*   - the notification event handler                                      *)
(*     (src/src/services/notification/application/event_handlers.py)       *)
(*   - the lifecycle of KafkaEventBus, KafkaEventPublisher and             *)
(*     ApplicationEventBus (kafka_client.py, src/src/event_bus.py)         *)
(***************************************************************************)
EXTENDS Integers, Sequences, FiniteSets, TLC

VARIABLES
    \* ---- notification service ----
    db,         \* NotificationRepository: notification id -> persisted entity
    clock,      \* logical time read by datetime.utcnow(); one tick per operation
    ret,        \* outcome of the last service call: [op, id, result]
    saves,      \* the entities the last service call saved, in order
    env,        \* what the collaborators did during the last step
    resets,     \* history: id -> number of FAILED -> PENDING resets performed
    \* ---- consume loops ----
    log,        \* the broker's topic log: sequence of message values
    offset,     \* consumer -> number of messages already taken from the log
    handlers,   \* consumer -> (event_type -> sequence of registered handlers)
    invoked,    \* consumer -> sequence of [msg, handler] handler invocations
    alive,      \* consumer -> the consume task has not terminated
    evt,       \* the last call of the event module: what was asked and
                \* what came back
    \* ---- bus lifecycle ----
    heap,       \* the bus objects, the broker clients and tasks they own,
                \* and the sends issued to the broker
    frame,      \* caller -> where its call in progress is suspended, or Idle
    call,       \* caller -> its current or last call, with the heap before it
    routes      \* the topic the last publish without a topic went to, and
                \* the topic and group the last subscribe without them took

nvars == <<db, clock, ret, saves, env, resets>>
cvars == <<log, offset, handlers, invoked, alive, evt>>
bvars == <<heap, frame, call, routes>>

-----------------------------------------------------------------------------
(* Bounds of the model *)

MaxNotifs == 1      \* notifications created in one behaviour
MaxSteps  == 7      \* service operations in one behaviour
MaxLog    == 2      \* messages written to the topic log
MaxSubs   == 2      \* handler registrations held at one time
MaxBuses  == 2      \* KafkaEventBus objects constructed
MaxPubs   == 2      \* KafkaEventPublisher objects constructed
MaxProducers == 2   \* AIOKafkaProducer objects constructed
MaxConsumers == 2   \* AIOKafkaConsumer objects (and consume tasks) created
MaxSends  == 1      \* send_and_wait calls issued
MaxApps   == 2      \* ApplicationEventBus objects constructed by get_event_bus
MaxRetryCount == 4  \* increment_retry calls made on one entity
MaxCalls  == 4      \* calls observed when handlers and API callers share the service
MaxTypes  == 2      \* event types passed to one subscribe call
MaxEventIds == 2    \* distinct event_id and occurred_on values of the events built

-----------------------------------------------------------------------------
(* Notification entity: src/src/services/notification/domain/entities.py *)

None == 0

NotificationType == {"email", "sms", "push", "in_app"}

NotificationStatus == {"pending", "sent", "failed", "delivered"}

DefaultMaxRetries == 3

Recipients == {"a@b.com"}

\* Notification.create: the dataclass defaults plus the given fields
create(id, type, title, recipient, now) ==
    [ id            |-> id,
      type          |-> type,
      title         |-> title,
      recipient     |-> recipient,
      status        |-> "pending",
      sent_at       |-> None,
      delivered_at  |-> None,
      error_message |-> "None",
      retry_count   |-> 0,
      max_retries   |-> DefaultMaxRetries,
      created_at    |-> now,
      updated_at    |-> now ]

mark_sent(n, now) ==
    [n EXCEPT !.status = "sent", !.sent_at = now, !.updated_at = now]

mark_delivered(n, now) ==
    [n EXCEPT !.status = "delivered", !.delivered_at = now, !.updated_at = now]

mark_failed(n, error_message, now) ==
    [n EXCEPT !.status = "failed", !.error_message = error_message,
              !.updated_at = now]

increment_retry(n, now) ==
    [n EXCEPT !.retry_count = @ + 1, !.updated_at = now]

\* a gate that admits one retry too many
can_retry_inclusive(n) ==
    n.status = "failed" /\ n.retry_count <= n.max_retries

can_retry(n) ==
    n.status = "failed" /\ n.retry_count < n.max_retries

\* a reset without the can_retry() gate
reset_for_retry_unguarded(n, now) ==
    [raised |-> FALSE,
     n |-> [n EXCEPT !.status = "pending", !.error_message = "None",
                     !.updated_at = now]]

\* reset_for_retry: [raised, n]; raises ValueError when can_retry() is false
reset_for_retry(n, now) ==
    IF can_retry(n)
    THEN [raised |-> FALSE,
          n |-> [n EXCEPT !.status = "pending", !.error_message = "None",
                          !.updated_at = now]]
    ELSE [raised |-> TRUE, n |-> n]

-----------------------------------------------------------------------------
(* NotificationRepository: src/src/services/notification/domain/repositories.py
   The repository is a collaborator: save stores the entity under its id,
   get_by_id returns the stored entity or None; either call may raise. *)

\* what get_by_id returns for an unknown id (Python's None)
NoNotification == [id |-> None]

get_by_id(store, id) ==
    IF id \in DOMAIN store THEN store[id] ELSE NoNotification

save(store, n) ==
    [i \in DOMAIN store \cup {n.id} |-> IF i = n.id THEN n ELSE store[i]]

-----------------------------------------------------------------------------
(* NotificationService: src/src/services/notification/domain/services.py *)

\* What the collaborators do during one send_notification call.
\*   get      get_by_id raises
\*   deliver  the delivery strategy raises
\*   save     the save after mark_sent raises
\*   save2    the save after mark_failed raises
NoFault == [get |-> FALSE, deliver |-> FALSE, save |-> FALSE, save2 |-> FALSE]

SendFaults ==
    { NoFault,
      [NoFault EXCEPT !.get = TRUE],
      [NoFault EXCEPT !.deliver = TRUE],
      [NoFault EXCEPT !.save = TRUE],
      [NoFault EXCEPT !.deliver = TRUE, !.save2 = TRUE],
      [NoFault EXCEPT !.save = TRUE, !.save2 = TRUE] }

\* Every service call returns [db, result, saves (, ...)]: the repository
\* afterwards, what the caller gets ("raised" for an exception), and the
\* entities handed to a successful save(), in order.

\* create_notification
create_notification(store, id, type, title, recipient, save_raises, now) ==
    LET notification == create(id, type, title, recipient, now) IN
    IF save_raises
    THEN [db |-> store, result |-> "raised", id |-> None, saves |-> <<>>]
    ELSE [db |-> save(store, notification), result |-> "ok", id |-> id,
          saves |-> <<notification>>]

\* send_notification: result is "True", "False" or "raised"
send_notification(store, id, f, now) ==
    IF f.get THEN [db |-> store, result |-> "raised", saves |-> <<>>]
    ELSE LET notification == get_by_id(store, id) IN
    IF notification = NoNotification
    THEN [db |-> store, result |-> "False", saves |-> <<>>]
    ELSE LET \* the entity when the except branch is entered: the strategy
             \* raised before mark_sent(), or save() raised after it
             caught == IF f.deliver THEN notification
                       ELSE mark_sent(notification, now)
             failed == mark_failed(caught,
                           IF f.deliver THEN "delivery failed" ELSE "save failed",
                           now)
             sent   == mark_sent(notification, now)
         IN IF f.deliver \/ f.save
            THEN IF f.save2
                 THEN [db |-> store, result |-> "raised", saves |-> <<>>]
                 ELSE [db |-> save(store, failed), result |-> "False",
                       saves |-> <<failed>>]
            ELSE [db |-> save(store, sent), result |-> "True",
                  saves |-> <<sent>>]

\* a retry that does not ask can_retry()
retry_failed_notification_ungated(store, id, get_raises, save_raises, f, now) ==
    LET notification == get_by_id(store, id) IN
    IF get_raises \/ save_raises
    THEN [db |-> store, result |-> "raised", saves |-> <<>>]
    ELSE IF notification = NoNotification
    THEN [db |-> store, result |-> "False", saves |-> <<>>]
    ELSE LET pending == reset_for_retry_unguarded(notification, now).n
             r == send_notification(save(store, pending), id, f, now)
         IN [db |-> r.db, result |-> r.result, saves |-> <<pending>> \o r.saves]

\* retry_failed_notification
retry_failed_notification(store, id, get_raises, save_raises, f, now) ==
    IF get_raises THEN [db |-> store, result |-> "raised", saves |-> <<>>]
    ELSE LET notification == get_by_id(store, id) IN
    IF notification = NoNotification
    THEN [db |-> store, result |-> "False", saves |-> <<>>]
    ELSE IF ~can_retry(notification)
    THEN [db |-> store, result |-> "False", saves |-> <<>>]
    ELSE IF save_raises
    THEN [db |-> store, result |-> "raised", saves |-> <<>>]
    ELSE LET pending == reset_for_retry(notification, now).n
             r == send_notification(save(store, pending), id, f, now)
         IN [db |-> r.db, result |-> r.result, saves |-> <<pending>> \o r.saves]

-----------------------------------------------------------------------------
(* Operations of the notification service, as its callers reach them *)

NotifIds == 1..MaxNotifs

\* what the collaborators did during a step
Env(create_raises, get_raises, save_raises, f) ==
    [create_raises |-> create_raises, get_raises |-> get_raises,
     save_raises |-> save_raises, f |-> f]

Quiet == Env(FALSE, FALSE, FALSE, NoFault)

\* the saves of a call that reset a FAILED notification to PENDING
CountResets(before, ss) ==
    Cardinality({i \in 1..Len(ss) :
        /\ ss[i].status = "pending"
        /\ ss[i].id \in DOMAIN before
        /\ (IF i = 1 THEN before[ss[i].id].status ELSE ss[i-1].status) = "failed"})

CreateNotification ==
    /\ clock < MaxSteps
    /\ Cardinality(DOMAIN db) < MaxNotifs
    /\ \E type \in NotificationType, recipient \in Recipients,
          save_raises \in BOOLEAN :
        LET id == Cardinality(DOMAIN db) + 1
            r == create_notification(db, id, type, "title", recipient,
                                     save_raises, clock + 1)
        IN /\ db' = r.db
           /\ saves' = r.saves
           /\ ret' = [op |-> "create_notification", id |-> id, result |-> r.result]
           /\ env' = Env(save_raises, FALSE, FALSE, NoFault)
    /\ clock' = clock + 1
    /\ UNCHANGED <<resets, cvars, bvars>>

SendNotification ==
    /\ clock < MaxSteps
    /\ \E id \in NotifIds, f \in SendFaults :
        LET r == send_notification(db, id, f, clock + 1)
        IN /\ db' = r.db
           /\ saves' = r.saves
           /\ ret' = [op |-> "send_notification", id |-> id, result |-> r.result]
           /\ env' = Env(FALSE, FALSE, FALSE, f)
    /\ clock' = clock + 1
    /\ UNCHANGED <<resets, cvars, bvars>>

RetryFailedNotification ==
    /\ clock < MaxSteps
    /\ \E id \in NotifIds, get_raises \in BOOLEAN, save_raises \in BOOLEAN,
          f \in SendFaults :
        /\ get_raises => (~save_raises /\ f = NoFault)
        /\ save_raises => f = NoFault
        /\ LET r == retry_failed_notification(db, id, get_raises, save_raises,
                                              f, clock + 1)
           IN /\ db' = r.db
              /\ saves' = r.saves
              /\ ret' = [op |-> "retry_failed_notification", id |-> id,
                         result |-> r.result]
              /\ env' = Env(FALSE, get_raises, save_raises, f)
              /\ resets' = [resets EXCEPT ![id] = @ + CountResets(db, r.saves)]
    /\ clock' = clock + 1
    /\ UNCHANGED <<cvars, bvars>>

NoRet == [op |-> "none", id |-> None, result |-> "none"]

-----------------------------------------------------------------------------
(* The Notification entity used directly: one object, held in db[1], and
   the methods of entities.py called on it in any order *)

\* the outcome of a method call on the entity db[1] becomes n
EntityCall(op, n, result) ==
    /\ clock < MaxSteps
    /\ db' = [i \in {1} |-> n]
    /\ ret' = [op |-> op, id |-> 1, result |-> result]
    /\ clock' = clock + 1
    /\ UNCHANGED <<saves, env, resets, cvars, bvars>>

Notification_create ==
    /\ DOMAIN db = {}
    /\ \E type \in NotificationType, recipient \in Recipients :
        EntityCall("create", create(1, type, "title", recipient, clock + 1),
                   "None")

Notification_mark_sent ==
    /\ DOMAIN db = {1}
    /\ EntityCall("mark_sent", mark_sent(db[1], clock + 1), "None")

Notification_mark_delivered ==
    /\ DOMAIN db = {1}
    /\ EntityCall("mark_delivered", mark_delivered(db[1], clock + 1), "None")

Notification_mark_failed ==
    /\ DOMAIN db = {1}
    /\ EntityCall("mark_failed", mark_failed(db[1], "error", clock + 1),
                  "None")

Notification_increment_retry ==
    /\ DOMAIN db = {1}
    /\ db[1].retry_count < MaxRetryCount
    /\ EntityCall("increment_retry", increment_retry(db[1], clock + 1), "None")

\* can_retry reads the entity and the clock is not consulted
Notification_can_retry ==
    /\ DOMAIN db = {1}
    /\ ret' = [op |-> "can_retry", id |-> 1,
               result |-> IF can_retry(db[1]) THEN "True" ELSE "False"]
    /\ UNCHANGED <<db, clock, saves, env, resets, cvars, bvars>>

Notification_reset_for_retry ==
    /\ DOMAIN db = {1}
    /\ LET r == reset_for_retry(db[1], clock + 1)
       IN EntityCall("reset_for_retry", r.n,
                     IF r.raised THEN "raised" ELSE "None")

-----------------------------------------------------------------------------
(* Domain events and the registry: src/src/shared/events.py *)

EventFields ==
    {"event_id", "event_type", "aggregate_id", "aggregate_type", "data",
     "occurred_on", "version", "metadata"}

EmptyDict == [k \in {} |-> None]

\* EVENT_REGISTRY: tag -> event class
EVENT_REGISTRY ==
    [ t \in {"user.created", "user.updated", "user.deleted", "user.authenticated",
             "task.created", "task.updated", "task.completed", "task.deleted",
             "notification.sent", "notification.failed",
             "system.health_check", "system.service_started"} |->
        CASE t = "user.created"           -> "UserCreatedEvent"
          [] t = "user.updated"           -> "UserUpdatedEvent"
          [] t = "user.deleted"           -> "UserDeletedEvent"
          [] t = "user.authenticated"     -> "UserAuthenticatedEvent"
          [] t = "task.created"           -> "TaskCreatedEvent"
          [] t = "task.updated"           -> "TaskUpdatedEvent"
          [] t = "task.completed"         -> "TaskCompletedEvent"
          [] t = "task.deleted"           -> "TaskDeletedEvent"
          [] t = "notification.sent"      -> "NotificationSentEvent"
          [] t = "notification.failed"    -> "NotificationFailedEvent"
          [] t = "system.health_check"    -> "HealthCheckEvent"
          [] t = "system.service_started" -> "ServiceStartedEvent" ]

\* the event_type default of each dataclass ("" for the base DomainEvent)
ClassEventType(class) ==
    IF \E t \in DOMAIN EVENT_REGISTRY : EVENT_REGISTRY[t] = class
    THEN CHOOSE t \in DOMAIN EVENT_REGISTRY : EVENT_REGISTRY[t] = class
    ELSE ""

\* the dataclass constructor event_class(**kwargs): field defaults, overridden
\* by the keyword arguments; a keyword that is no field is a TypeError
NewEvent(class, kwargs, fresh, now) ==
    [ class  |-> class,
      fields |-> [k \in EventFields |->
                    IF k \in DOMAIN kwargs THEN kwargs[k]
                    ELSE CASE k = "event_id"       -> <<"UUID", fresh>>
                           [] k = "event_type"     -> ClassEventType(class)
                           [] k = "aggregate_id"   -> ""
                           [] k = "aggregate_type" -> ""
                           [] k = "data"           -> EmptyDict
                           [] k = "occurred_on"    -> <<"datetime", now>>
                           [] k = "version"        -> 1
                           [] k = "metadata"       -> EmptyDict ] ]

\* DomainEvent.to_dict: event_id through str(), occurred_on through isoformat()
to_dict(event) ==
    [k \in EventFields |->
        CASE k = "event_id"    -> <<"str", event.fields[k][2]>>
          [] k = "occurred_on" -> <<"iso", event.fields[k][2]>>
          [] OTHER             -> event.fields[k] ]

\* a factory that builds the base class whatever the tag
create_event_from_type_base(event_type, kwargs, fresh, now) ==
    [raised |-> "none", event |-> NewEvent("DomainEvent", kwargs, fresh, now)]

\* create_event_from_type(event_type, **kwargs): [raised, event].
\* event_type is the function's positional parameter, so a kwargs mapping that
\* itself holds the key "event_type" cannot be bound: Python raises TypeError
\* (multiple values for argument 'event_type') before the body runs.
create_event_from_type(event_type, kwargs, fresh, now) ==
    IF "event_type" \in DOMAIN kwargs
    THEN [raised |-> "TypeError", event |-> None]
    ELSE IF event_type \notin DOMAIN EVENT_REGISTRY
    THEN [raised |-> "ValueError", event |-> None]
    ELSE IF ~(DOMAIN kwargs \subseteq EventFields)
    THEN [raised |-> "TypeError", event |-> None]
    ELSE [raised |-> "none",
          event  |-> NewEvent(EVENT_REGISTRY[event_type], kwargs, fresh, now)]

\* dict.get(key): the value, or None
DictGet(d, key) == IF key \in DOMAIN d THEN d[key] ELSE None

\* UUID(str): the UUID a string written by str(uuid) stands for
ParseUUID(str) == <<"UUID", str[2]>>

\* datetime.fromisoformat(str): the datetime isoformat() wrote
FromIsoFormat(str) == <<"datetime", str[2]>>

\* a decoder that lets the constructor draw a new event_id
from_dict_fresh_id(class, data, fresh, now) ==
    [raised |-> "none",
     event  |-> NewEvent(class,
                    [k \in EventFields \ {"event_id"} |->
                        CASE k = "occurred_on" -> FromIsoFormat(data[k])
                          [] OTHER             -> data[k]], fresh, now)]

\* cls.from_dict(data): [raised, event].  Seven keys are read with data[...]
\* (KeyError when absent), metadata with data.get("metadata", {}); the
\* constructor receives all eight fields, so no default is drawn.
from_dict(class, data, fresh, now) ==
    IF ~(EventFields \ {"metadata"} \subseteq DOMAIN data)
    THEN [raised |-> "KeyError", event |-> None]
    ELSE [raised |-> "none",
          event  |-> NewEvent(class,
                        [k \in EventFields |->
                            CASE k = "event_id"    -> ParseUUID(data[k])
                              [] k = "occurred_on" -> FromIsoFormat(data[k])
                              [] k = "metadata" ->
                                    IF k \in DOMAIN data THEN data[k]
                                    ELSE EmptyDict
                              [] OTHER -> data[k]], fresh, now)]

-----------------------------------------------------------------------------
(* NotificationEventHandler:
   src/src/services/notification/application/event_handlers.py *)

\* an exception that leaves the try block unhandled
Propagated(r) == r

\* "except Exception as e: logger.error(...)": the exception is logged and
\* the handler returns normally, with whatever the service did before
Logged(r) == [r EXCEPT !.raised = FALSE]

\* the try block shared by the two handlers: create_notification, then
\* send_notification(notification.id); raised says an exception left it
CreateAndSend(store, type, title, recipient, create_raises, f, now) ==
    LET c == create_notification(store, Cardinality(DOMAIN store) + 1,
                                 type, title, recipient, create_raises, now)
    IN IF c.result = "raised"
       THEN [db |-> store, saves |-> <<>>, raised |-> TRUE]
       ELSE LET r == send_notification(c.db, c.id, f, now)
            IN [db |-> r.db, saves |-> c.saves \o r.saves,
                raised |-> r.result = "raised"]

\* handle_user_created: [db, saves, raised]; everything inside is in one try/except
handle_user_created(store, event, create_raises, f, now) ==
    LET user_data == event.fields["data"]
        has_email == "email" \in DOMAIN user_data
    IN  IF ~has_email THEN [db |-> store, saves |-> <<>>, raised |-> FALSE]
        ELSE Logged(CreateAndSend(store, "email", "Welcome to Our Platform!",
                                  user_data["email"], create_raises, f, now))

\* handle_task_completed: [db, saves, raised]
handle_task_completed(store, event, create_raises, f, now) ==
    LET task_data == event.fields["data"]
        has_user == "user_id" \in DOMAIN task_data
    IN  IF ~has_user THEN [db |-> store, saves |-> <<>>, raised |-> FALSE]
        ELSE Logged(CreateAndSend(store, "in_app", "Task Completed!",
                                  task_data["user_id"], create_raises, f, now))

-----------------------------------------------------------------------------
(* The consume loops: src/src/shared/kafka_client.py *)

\* The callbacks a service registers.  h_ok returns normally and h_raise
\* raises; the other two are the notification service's handlers.
Handlers == {"handle_user_created", "handle_task_completed", "h_ok", "h_raise"}

\* one handler call: [db, saves, raised]
CallHandler(h, store, event, create_raises, f, now) ==
    CASE h = "handle_user_created"   ->
            handle_user_created(store, event, create_raises, f, now)
      [] h = "handle_task_completed" ->
            handle_task_completed(store, event, create_raises, f, now)
      [] h = "h_ok"    -> [db |-> store, saves |-> <<>>, raised |-> FALSE]
      [] h = "h_raise" -> [db |-> store, saves |-> <<>>, raised |-> TRUE]

\* "for handler in self.handlers[event_type]": each call in its own try/except,
\* so the loop goes on to handler i+1 whatever handler i did.
\* st is [db, saves, calls]; calls records every invocation in the order made.
RECURSIVE CallHandlers(_, _, _, _, _, _, _, _)
CallHandlers(hs, i, st, msg, event, create_raises, f, now) ==
    IF i > Len(hs) THEN st
    ELSE LET r == CallHandler(hs[i], st.db, event, create_raises, f, now)
         IN CallHandlers(hs, i + 1,
                [db    |-> r.db,
                 saves |-> st.saves \o r.saves,
                 calls |-> Append(st.calls, [msg |-> msg, handler |-> hs[i],
                                             raised |-> r.raised])],
                msg, event, create_raises, f, now)

\* a loop body whose "create_event_from_type" failure is not caught: the
\* exception leaves the per-message try
consume_message_uncaught(hmap, event_data, msg, store, create_raises, f, now) ==
    LET skip == [db |-> store, saves |-> <<>>, calls |-> <<>>,
                 escaped |-> FALSE] IN
    IF DOMAIN event_data = {} THEN skip
    ELSE IF "event_type" \notin DOMAIN event_data THEN skip
    ELSE IF event_data["event_type"] \notin DOMAIN hmap THEN skip
    ELSE [skip EXCEPT !.escaped = TRUE]

\* The body of "async for message in consumer" for one message:
\* [db, saves, calls, escaped]; escaped says an exception left the per-message try,
\* which would end the consume task.
consume_message(hmap, event_data, msg, store, create_raises, f, now) ==
    LET skip == [db |-> store, saves |-> <<>>, calls |-> <<>>,
                 escaped |-> FALSE] IN
    IF DOMAIN event_data = {} THEN skip
    ELSE LET event_type == DictGet(event_data, "event_type") IN
    IF "event_type" \notin DOMAIN event_data THEN skip
    ELSE IF event_type \notin DOMAIN hmap THEN skip
    ELSE LET made == create_event_from_type(event_type, event_data, msg, now) IN
    IF made.raised # "none" THEN skip
    ELSE LET r == CallHandlers(hmap[event_type], 1,
                      [db |-> store, saves |-> <<>>, calls |-> <<>>], msg,
                      made.event, create_raises, f, now)
         IN [db |-> r.db, saves |-> r.saves, calls |-> r.calls,
             escaped |-> FALSE]

\* "if event_type not in self.handlers: self.handlers[event_type] = []" and
\* the append that follows (KafkaEventConsumer.subscribe and the registration
\* loop of KafkaEventBus.subscribe)
RegisterHandler(hmap, event_type, handler) ==
    [t \in DOMAIN hmap \cup {event_type} |->
        IF t = event_type
        THEN Append(IF t \in DOMAIN hmap THEN hmap[t] ELSE <<>>, handler)
        ELSE hmap[t]]

-----------------------------------------------------------------------------
(* Messages on the topic *)

UserCreated ==
    NewEvent("UserCreatedEvent",
             [k \in {"aggregate_id", "aggregate_type", "data"} |->
                CASE k = "aggregate_id"   -> "42"
                  [] k = "aggregate_type" -> "User"
                  [] k = "data" -> [email |-> "a@b.com", username |-> "alice"]],
             1, 1)

TaskCompleted ==
    NewEvent("TaskCompletedEvent",
             [k \in {"aggregate_id", "aggregate_type", "data"} |->
                CASE k = "aggregate_id"   -> "7"
                  [] k = "aggregate_type" -> "Task"
                  [] k = "data" -> [user_id |-> "u1", title |-> "T"]],
             2, 1)

Bogus ==
    NewEvent("DomainEvent",
             [k \in {"event_type", "aggregate_type"} |->
                CASE k = "event_type"     -> "bogus.tag"
                  [] k = "aggregate_type" -> "User"],
             3, 1)

\* what a producer of the topic can write: published events, an empty
\* payload, and a JSON object without event_type
MessageValues ==
    { to_dict(UserCreated), to_dict(TaskCompleted), to_dict(Bogus),
      EmptyDict, [k \in {"aggregate_id"} |-> "42"] }

\* the event types services subscribe to, and one tag outside the registry
SubscribedTypes == {"user.created", "task.completed", "bogus.tag"}

\* the handlers a service registers under an event type
HandlersFor(t) ==
    CASE t = "user.created"   -> {"handle_user_created", "h_ok", "h_raise"}
      [] t = "task.completed" -> {"handle_task_completed", "h_ok", "h_raise"}
      [] OTHER                -> {"h_ok", "h_raise"}

\* the two consume loops: a KafkaEventBus topic task and a KafkaEventConsumer
Consumers == {"KafkaEventBus", "KafkaEventConsumer"}

NoHandlers == [t \in {} |-> <<>>]

RECURSIVE SumLen(_, _)
SumLen(hmap, ts) ==
    IF ts = {} THEN 0
    ELSE LET t == CHOOSE x \in ts : TRUE
         IN Len(hmap[t]) + SumLen(hmap, ts \ {t})

\* number of handler registrations held by a handler map
Registrations(hmap) == SumLen(hmap, DOMAIN hmap)

Produce ==
    /\ Len(log) < MaxLog
    /\ \E v \in MessageValues : log' = Append(log, v)
    /\ UNCHANGED <<offset, handlers, invoked, alive, evt, nvars, bvars>>

Subscribe(c) ==
    /\ alive[c]
    /\ \E t \in SubscribedTypes : \E h \in HandlersFor(t) :
        /\ Registrations(handlers[c]) < MaxSubs
        /\ handlers' = [handlers EXCEPT ![c] = RegisterHandler(@, t, h)]
    /\ UNCHANGED <<log, offset, invoked, alive, evt, nvars, bvars>>

ConsumeMessages(c) ==
    /\ alive[c]
    /\ offset[c] < Len(log)
    /\ \E create_raises \in BOOLEAN, f \in SendFaults :
        LET msg == offset[c] + 1
            r == consume_message(handlers[c], log[msg], msg, db,
                                 create_raises, f, clock + 1)
        IN \* the collaborators act only when a handler runs
           /\ r.calls = <<>> => (~create_raises /\ f = NoFault)
           /\ db' = r.db
           /\ saves' = r.saves
           /\ env' = Env(create_raises, FALSE, FALSE, f)
           /\ invoked' = [invoked EXCEPT ![c] = @ \o r.calls]
           /\ alive' = [alive EXCEPT ![c] = ~r.escaped]
    /\ offset' = [offset EXCEPT ![c] = @ + 1]
    /\ clock' = clock + 1
    /\ UNCHANGED <<log, handlers, evt, ret, resets, bvars>>

\* KafkaEventBus._consume_messages
BusConsumeMessages == ConsumeMessages("KafkaEventBus")

\* KafkaEventConsumer._consume_messages
ConsumerConsumeMessages == ConsumeMessages("KafkaEventConsumer")

\* the registration loop of KafkaEventBus.subscribe
BusSubscribe == Subscribe("KafkaEventBus")

\* KafkaEventConsumer.subscribe
ConsumerSubscribe == Subscribe("KafkaEventConsumer")

\* events a consume loop hands to the notification handlers: the two above
\* and the same events with an empty data payload
HandledEvents(h) ==
    IF h = "handle_user_created"
    THEN {UserCreated, [UserCreated EXCEPT !.fields["data"] = EmptyDict]}
    ELSE {TaskCompleted, [TaskCompleted EXCEPT !.fields["data"] = EmptyDict]}

\* "await handler(event)" for one of the notification handlers, with the
\* repository and the delivery failing or not
Handle(h) ==
    /\ clock < MaxSteps
    /\ Cardinality(DOMAIN db) < MaxNotifs
    /\ \E event \in HandledEvents(h), create_raises \in BOOLEAN,
          f \in SendFaults :
        LET r == CallHandler(h, db, event, create_raises, f, clock + 1)
        IN /\ create_raises => f = NoFault
           /\ DOMAIN event.fields["data"] = {} => (~create_raises /\ f = NoFault)
           /\ db' = r.db
           /\ saves' = r.saves
           /\ ret' = [op |-> h, id |-> None,
                      result |-> IF r.raised THEN "raised" ELSE "None"]
           /\ env' = Env(create_raises, FALSE, FALSE, f)
    /\ clock' = clock + 1
    /\ UNCHANGED <<resets, cvars, bvars>>

HandleUserCreated == Handle("handle_user_created")

HandleTaskCompleted == Handle("handle_task_completed")

-----------------------------------------------------------------------------
(* Lifecycle of KafkaEventBus, KafkaEventPublisher and ApplicationEventBus:
   src/src/shared/kafka_client.py, src/src/event_bus.py

   The objects live in a heap h = [kb, pub, app, prod, cons, task, sends].
   A call runs on the event loop until its next await on the broker client
   or on a task; there it is suspended and its frame is kept.  Every
   operator below is one such run: it takes the heap and returns
   [h, out, err, fr] with out = "ret" (returned), "raise" (raised err) or
   "susp" (suspended with frame fr). *)

BusIds      == 1..MaxBuses
PubIds      == 1..MaxPubs
ProducerIds == 1..MaxProducers
ConsumerIds == 1..MaxConsumers
TaskIds     == 1..MaxConsumers

NoConsumers == [t \in {} |-> None]

\* KafkaEventBus.__init__.  Two fields are history: life is "started" after
\* a start() that succeeded and "stopped" after a stop() that went past its
\* guard, until the next of the two; subscribed holds the topics of the
\* subscribe() calls that returned since the bus last started
NewKafkaEventBus ==
    [ exists |-> TRUE, running |-> FALSE, producer |-> None,
      consumers |-> NoConsumers, handlers |-> NoHandlers, tasks |-> <<>>,
      life |-> "init", subscribed |-> {} ]

NoKafkaEventBus == [NewKafkaEventBus EXCEPT !.exists = FALSE]

\* KafkaEventPublisher.__init__
NewKafkaEventPublisher ==
    [ exists |-> TRUE, running |-> FALSE, producer |-> None, life |-> "init" ]

NoKafkaEventPublisher == [NewKafkaEventPublisher EXCEPT !.exists = FALSE]

\* ApplicationEventBus.__init__
NewApplicationEventBus ==
    [ exists |-> TRUE, running |-> FALSE, kafka_event_bus |-> None,
      event_publisher |-> None, life |-> "init" ]

NoApplicationEventBus == [NewApplicationEventBus EXCEPT !.exists = FALSE]

NoConsumer == [state |-> "unborn", topic |-> "", group_id |-> ""]

NoTask == [state |-> "unborn", consumer |-> None, bus |-> None, topic |-> ""]

\* a caller that is in no call
Idle ==
    [ op |-> "idle", in |-> "", at |-> "", b |-> None, q |-> None, p |-> None,
      c |-> None, i |-> None, k |-> None, topic |-> "" ]

\* a caller in the call op, before its first await
Frame(op) == [Idle EXCEPT !.op = op]

Done(h, out, err) == [h |-> h, out |-> out, err |-> err, fr |-> Idle]

Susp(h, fr) == [h |-> h, out |-> "susp", err |-> "", fr |-> fr]

\* the object ids not yet handed out, and the next of them
Unborn(states) == {i \in DOMAIN states : states[i] = "unborn"}

Fresh(states) ==
    CHOOSE i \in Unborn(states) : \A j \in Unborn(states) : i <= j

ConsumerStates(h) == [c \in DOMAIN h.cons |-> h.cons[c].state]

TaskStates(h) == [k \in DOMAIN h.task |-> h.task[k].state]

BusStates(h) ==
    [b \in DOMAIN h.kb |-> IF h.kb[b].exists THEN "born" ELSE "unborn"]

PublisherStates(h) ==
    [q \in DOMAIN h.pub |-> IF h.pub[q].exists THEN "born" ELSE "unborn"]

-----------------------------------------------------------------------------
(* KafkaEventBus *)

\* KafkaEventBus._cleanup
KB_cleanup(h, b) ==
    [h EXCEPT !.kb[b].running = FALSE, !.kb[b].producer = None,
              !.kb[b].consumers = NoConsumers, !.kb[b].handlers = NoHandlers]

\* start() without the "if self._running" guard: what the guard prevents
KB_start_unguarded(h, b, fr) ==
    LET p == Fresh(h.prod)
    IN Susp([h EXCEPT !.prod[p] = "starting", !.kb[b].producer = p],
            [Frame(fr.op) EXCEPT !.in = "kb.start", !.at = "producer.start",
                                 !.b = b, !.p = p])

\* KafkaEventBus.start up to "await self.producer.start()"
KB_start(h, b, fr) ==
    IF h.kb[b].running THEN Done(h, "ret", "")
    ELSE LET p == Fresh(h.prod)
         IN Susp([h EXCEPT !.prod[p] = "starting", !.kb[b].producer = p],
                 [Frame(fr.op) EXCEPT !.in = "kb.start", !.at = "producer.start",
                            !.b = b, !.p = p])

\* KafkaEventBus.start after "await self.producer.start()"
KB_start_resume(h, fr, ok) ==
    IF ok
    THEN Done([h EXCEPT !.prod[fr.p] = "started", !.kb[fr.b].running = TRUE,
                        !.kb[fr.b].life = "started",
                        !.kb[fr.b].subscribed = {}], "ret", "")
    ELSE Done(KB_cleanup([h EXCEPT !.prod[fr.p] = "failed"], fr.b),
              "raise", "io")

\* KafkaEventBus.stop from "Stop consumers" to the end: consumer.stop() for
\* every consumer of the map (exceptions swallowed), then the flag, then
\* _cleanup in the finally
KB_stop_rest(h, b) ==
    LET mine == {h.kb[b].consumers[t] : t \in DOMAIN h.kb[b].consumers}
        h1 == [h EXCEPT !.cons = [c \in DOMAIN h.cons |->
                                    IF c \in mine
                                    THEN [h.cons[c] EXCEPT !.state = "stopped"]
                                    ELSE h.cons[c]]]
    IN Done([KB_cleanup(h1, b) EXCEPT !.kb[b].life = "stopped"], "ret", "")

\* KafkaEventBus.stop: "self._consumer_tasks.clear()" and "Stop producer"
KB_stop_producer(h, b, fr) ==
    LET h1 == [h EXCEPT !.kb[b].tasks = <<>>]
        p == h.kb[b].producer
    IN IF p # None
       THEN Susp([h1 EXCEPT !.prod[p] = "stopping"],
                 [Frame(fr.op) EXCEPT !.in = "kb.stop", !.at = "producer.stop",
                            !.b = b, !.p = p])
       ELSE KB_stop_rest(h1, b)

\* KafkaEventBus.stop: "for task in self._consumer_tasks" from position i:
\* a task that is not done is cancelled and awaited
RECURSIVE KB_stop_tasks(_, _, _, _)
KB_stop_tasks(h, b, i, fr) ==
    IF i > Len(h.kb[b].tasks) THEN KB_stop_producer(h, b, fr)
    ELSE LET k == h.kb[b].tasks[i] IN
         IF h.task[k].state = "done" THEN KB_stop_tasks(h, b, i + 1, fr)
         ELSE Susp([h EXCEPT !.task[k].state = "cancelled"],
                   [Frame(fr.op) EXCEPT !.in = "kb.stop", !.at = "task", !.b = b,
                              !.i = i, !.k = k])

\* KafkaEventBus.stop up to its first await
KB_stop(h, b, fr) ==
    IF ~h.kb[b].running THEN Done(h, "ret", "")
    ELSE KB_stop_tasks(h, b, 1, fr)

\* KafkaEventBus.stop after an await
KB_stop_resume(h, fr, ok) ==
    IF fr.at = "task" THEN KB_stop_tasks(h, fr.b, fr.i + 1, fr)
    ELSE IF ok
    THEN KB_stop_rest([h EXCEPT !.prod[fr.p] = "stopped",
                                !.kb[fr.b].producer = None], fr.b)
    ELSE Done([KB_cleanup([h EXCEPT !.prod[fr.p] = "stop_failed"], fr.b)
                  EXCEPT !.kb[fr.b].life = "stopped"], "raise", "io")

\* publish() without the "if not self._running" guard: what the guard
\* prevents
KB_publish_unguarded(h, b, fr) ==
    IF h.kb[b].producer = None THEN Done(h, "raise", "no_producer")
    ELSE Susp([h EXCEPT !.sends = @ + 1],
              [Frame(fr.op) EXCEPT !.in = "kb.publish", !.at = "send", !.b = b,
                                   !.p = h.kb[b].producer])

\* KafkaEventBus.publish up to "await self.producer.send_and_wait(...)"
KB_publish(h, b, fr) ==
    IF ~h.kb[b].running THEN Done(h, "raise", "not_running")
    ELSE IF h.kb[b].producer = None THEN Done(h, "raise", "no_producer")
    ELSE Susp([h EXCEPT !.sends = @ + 1],
              [Frame(fr.op) EXCEPT !.in = "kb.publish", !.at = "send", !.b = b,
                         !.p = h.kb[b].producer])

\* publish after send_and_wait: the acknowledgement, or a Kafka error re-raised
KB_publish_resume(h, fr, ok) ==
    IF ok THEN Done(h, "ret", "") ELSE Done(h, "raise", "io")

\* str.lower() of the aggregate types in use
Lower(str) ==
    CASE str = "User"    -> "user"
      [] str = "Task"    -> "task"
      [] str = "Service" -> "service"
      [] OTHER           -> str

\* the topic publish() sends to ("" is None):
\* topic or f"{event.aggregate_type.lower()}.events"
PublishTopic(event, topic) ==
    IF topic # "" THEN topic
    ELSE Lower(event.fields["aggregate_type"]) \o ".events"

\* event_type.split('.')[0] for the tags in use
SplitFirst(event_type) ==
    CASE event_type \in {"user.created", "user.updated", "user.deleted",
                         "user.authenticated"}                -> "user"
      [] event_type \in {"task.created", "task.updated", "task.completed",
                         "task.deleted"}                      -> "task"
      [] event_type \in {"notification.sent", "notification.failed"}
                                                              -> "notification"
      [] event_type \in {"system.health_check", "system.service_started"}
                                                              -> "system"
      [] event_type = "bogus.tag"                             -> "bogus"

\* the topic subscribe() consumes when none is given ("" is None)
SubscribeTopic(event_types, topic) ==
    IF topic # "" THEN topic
    ELSE IF Len(event_types) = 1
         THEN SplitFirst(event_types[1]) \o ".events"
         ELSE "all.events"

\* the consumer group subscribe() uses when none is given ("" is None)
SubscribeGroup(topic, group_id) ==
    IF group_id # "" THEN group_id ELSE topic \o "-consumer-group"

\* "for event_type in event_types: ... self.handlers[event_type].append(handler)"
RECURSIVE RegisterAll(_, _, _, _)
RegisterAll(hmap, event_types, i, handler) ==
    IF i > Len(event_types) THEN hmap
    ELSE RegisterAll(RegisterHandler(hmap, event_types[i], handler),
                     event_types, i + 1, handler)

\* subscribe() without the "if topic not in self.consumers" guard: what the
\* guard prevents
KB_subscribe_unguarded(h, b, event_types, handler, topic0, group0, fr) ==
    IF ~h.kb[b].running THEN Done(h, "raise", "not_running")
    ELSE LET topic == SubscribeTopic(event_types, topic0)
             group_id == SubscribeGroup(topic, group0)
             h1 == [h EXCEPT !.kb[b].handlers =
                        RegisterAll(@, event_types, 1, handler)]
             c == Fresh(ConsumerStates(h))
         IN Susp([h1 EXCEPT !.cons[c] = [state |-> "starting",
                                         topic |-> topic,
                                         group_id |-> group_id]],
                 [Frame(fr.op) EXCEPT !.in = "kb.subscribe",
                                      !.at = "consumer.start", !.b = b,
                                      !.c = c, !.topic = topic])

\* KafkaEventBus.subscribe up to "await consumer.start()"
KB_subscribe(h, b, event_types, handler, topic0, group0, fr) ==
    IF ~h.kb[b].running THEN Done(h, "raise", "not_running")
    ELSE LET topic == SubscribeTopic(event_types, topic0)
             group_id == SubscribeGroup(topic, group0)
             h1 == [h EXCEPT !.kb[b].handlers =
                        RegisterAll(@, event_types, 1, handler)]
         IN IF topic \in DOMAIN h.kb[b].consumers
            THEN Done([h1 EXCEPT !.kb[b].subscribed = @ \cup {topic}],
                      "ret", "")
            ELSE LET c == Fresh(ConsumerStates(h))
                 IN Susp([h1 EXCEPT !.cons[c] = [state |-> "starting",
                                                 topic |-> topic,
                                                 group_id |-> group_id]],
                         [Frame(fr.op) EXCEPT !.in = "kb.subscribe",
                                    !.at = "consumer.start", !.b = b,
                                    !.c = c, !.topic = topic])

\* KafkaEventBus.subscribe after "await consumer.start()"
KB_subscribe_resume(h, fr, ok) ==
    IF ~ok THEN Done([h EXCEPT !.cons[fr.c].state = "failed"], "raise", "io")
    ELSE LET b == fr.b
             k == Fresh(TaskStates(h))
         IN Done([h EXCEPT
                    !.cons[fr.c].state = "started",
                    !.kb[b].consumers =
                        [t \in DOMAIN @ \cup {fr.topic} |->
                            IF t = fr.topic THEN fr.c ELSE @[t]],
                    !.task[k] = [state |-> "live", consumer |-> fr.c,
                                 bus |-> b, topic |-> fr.topic],
                    !.kb[b].tasks = Append(@, k),
                    !.kb[b].subscribed = @ \cup {fr.topic}], "ret", "")

-----------------------------------------------------------------------------
(* KafkaEventPublisher *)

\* KafkaEventPublisher._cleanup
PUB_cleanup(h, q) ==
    [h EXCEPT !.pub[q].running = FALSE, !.pub[q].producer = None]

\* KafkaEventPublisher.start up to "await self.producer.start()"
PUB_start(h, q, fr) ==
    IF h.pub[q].running THEN Done(h, "ret", "")
    ELSE LET p == Fresh(h.prod)
         IN Susp([h EXCEPT !.prod[p] = "starting", !.pub[q].producer = p],
                 [Frame(fr.op) EXCEPT !.in = "pub.start", !.at = "producer.start",
                            !.q = q, !.p = p])

PUB_start_resume(h, fr, ok) ==
    IF ok
    THEN Done([h EXCEPT !.prod[fr.p] = "started", !.pub[fr.q].running = TRUE,
                        !.pub[fr.q].life = "started"], "ret", "")
    ELSE Done(PUB_cleanup([h EXCEPT !.prod[fr.p] = "failed"], fr.q),
              "raise", "io")

\* KafkaEventPublisher.stop up to "await self.producer.stop()"
PUB_stop(h, q, fr) ==
    IF ~h.pub[q].running THEN Done(h, "ret", "")
    ELSE LET p == h.pub[q].producer
         IN IF p # None
            THEN Susp([h EXCEPT !.prod[p] = "stopping"],
                      [Frame(fr.op) EXCEPT !.in = "pub.stop", !.at = "producer.stop",
                                 !.q = q, !.p = p])
            ELSE Done([PUB_cleanup(h, q) EXCEPT !.pub[q].life = "stopped"],
                      "ret", "")

\* KafkaEventPublisher.stop after the await: _cleanup runs in the finally
PUB_stop_resume(h, fr, ok) ==
    LET h1 == [PUB_cleanup(h, fr.q) EXCEPT !.pub[fr.q].life = "stopped"]
    IN IF ok THEN Done([h1 EXCEPT !.prod[fr.p] = "stopped"], "ret", "")
       ELSE Done([h1 EXCEPT !.prod[fr.p] = "stop_failed"], "raise", "io")

\* KafkaEventPublisher.publish up to send_and_wait
PUB_publish(h, q, fr) ==
    IF ~h.pub[q].running THEN Done(h, "raise", "not_running")
    ELSE IF h.pub[q].producer = None THEN Done(h, "raise", "no_producer")
    ELSE Susp([h EXCEPT !.sends = @ + 1],
              [Frame(fr.op) EXCEPT !.in = "pub.publish", !.at = "send", !.q = q,
                         !.p = h.pub[q].producer])

PUB_publish_resume(h, fr, ok) ==
    IF ok THEN Done(h, "ret", "") ELSE Done(h, "raise", "io")

-----------------------------------------------------------------------------
(* ApplicationEventBus: src/src/event_bus.py *)

\* ApplicationEventBus.start after "await self.event_publisher.start()"
APP_start_end(r) ==
    IF r.out = "ret"
    THEN Done([r.h EXCEPT !.app.running = TRUE, !.app.life = "started"],
              "ret", "")
    ELSE r

\* ApplicationEventBus.start after "await self.kafka_event_bus.start()"
APP_start_publisher(r, fr) ==
    IF r.out # "ret" THEN r
    ELSE LET q == Fresh(PublisherStates(r.h))
             h1 == [r.h EXCEPT !.pub[q] = NewKafkaEventPublisher,
                               !.app.event_publisher = q]
         IN APP_start_end(PUB_start(h1, q, fr))

\* ApplicationEventBus.start
APP_start(h, fr) ==
    IF h.app.running THEN Done(h, "ret", "")
    ELSE LET b == Fresh(BusStates(h))
             h1 == [h EXCEPT !.kb[b] = NewKafkaEventBus,
                             !.app.kafka_event_bus = b]
         IN APP_start_publisher(KB_start(h1, b, fr), fr)

\* ApplicationEventBus.stop after "await self.kafka_event_bus.stop()"; an
\* exception of the body is logged by "except Exception" and not re-raised
APP_stop_end(r) ==
    CASE r.out = "susp"  -> r
      [] r.out = "raise" -> Done([r.h EXCEPT !.app.life = "stopped"], "ret", "")
      [] r.out = "ret"   -> Done([r.h EXCEPT !.app.running = FALSE,
                                             !.app.life = "stopped"], "ret", "")

\* ApplicationEventBus.stop after "await self.event_publisher.stop()"
APP_stop_bus(r, fr) ==
    CASE r.out = "susp"  -> r
      [] r.out = "raise" -> Done([r.h EXCEPT !.app.life = "stopped"], "ret", "")
      [] r.out = "ret"   ->
            IF r.h.app.kafka_event_bus # None
            THEN APP_stop_end(KB_stop(r.h, r.h.app.kafka_event_bus, fr))
            ELSE APP_stop_end(r)

\* ApplicationEventBus.stop; self.event_consumers is empty: nothing appends
\* to it
APP_stop(h, fr) ==
    IF ~h.app.running THEN Done(h, "ret", "")
    ELSE IF h.app.event_publisher # None
         THEN APP_stop_bus(PUB_stop(h, h.app.event_publisher, fr), fr)
         ELSE APP_stop_bus(Done(h, "ret", ""), fr)

\* ApplicationEventBus.publish_event
APP_publish_event(h, fr) ==
    IF ~h.app.running \/ h.app.event_publisher = None
    THEN Done(h, "raise", "not_running")
    ELSE PUB_publish(h, h.app.event_publisher, fr)

-----------------------------------------------------------------------------
(* Calls and their continuation *)

\* the method in which a suspended call is continued when its await returns
\* (ok) or raises (~ok)
Inner_resume(h, fr, ok) ==
    CASE fr.in = "kb.start"     -> KB_start_resume(h, fr, ok)
      [] fr.in = "kb.stop"      -> KB_stop_resume(h, fr, ok)
      [] fr.in = "kb.publish"   -> KB_publish_resume(h, fr, ok)
      [] fr.in = "kb.subscribe" -> KB_subscribe_resume(h, fr, ok)
      [] fr.in = "pub.start"    -> PUB_start_resume(h, fr, ok)
      [] fr.in = "pub.stop"     -> PUB_stop_resume(h, fr, ok)
      [] fr.in = "pub.publish"  -> PUB_publish_resume(h, fr, ok)

\* the call continued up to its next await or its end, through the
\* ApplicationEventBus method that awaits the inner one
Resume(h, fr, ok) ==
    LET r == Inner_resume(h, fr, ok)
    IN CASE fr.op = "app.start" /\ fr.in = "kb.start"  -> APP_start_publisher(r, fr)
         [] fr.op = "app.start" /\ fr.in = "pub.start" -> APP_start_end(r)
         [] fr.op = "app.stop"  /\ fr.in = "pub.stop"  -> APP_stop_bus(r, fr)
         [] fr.op = "app.stop"  /\ fr.in = "kb.stop"   -> APP_stop_end(r)
         [] OTHER                                      -> r

Range(seq) == {seq[i] : i \in 1..Len(seq)}

\* no ApplicationEventBus: the bus or the publisher is used on its own
Standalone(h) == ~h.app.exists

\* Objects nothing refers to any more are reclaimed and their ids are used
\* again: a bus or a publisher that neither the application bus nor a call
\* in progress nor an unfinished task holds; a producer or a consumer that
\* has finished and that no object, task or call holds; a task that is done
\* and is in no task list.  frs are the frames of the callers.
Collect(h, frs) ==
    LET active == {t \in DOMAIN frs : frs[t] # Idle}
        busy == {k \in TaskIds : h.task[k].state \in {"live", "cancelled"}}
        keepB == IF Standalone(h) THEN BusIds
                 ELSE {h.app.kafka_event_bus} \cup {frs[t].b : t \in active}
                      \cup {h.task[k].bus : k \in busy}
        keepQ == IF Standalone(h) THEN PubIds
                 ELSE {h.app.event_publisher} \cup {frs[t].q : t \in active}
        kb1 == [b \in BusIds |->
                  IF b \in keepB THEN h.kb[b] ELSE NoKafkaEventBus]
        pub1 == [q \in PubIds |->
                  IF q \in keepQ THEN h.pub[q] ELSE NoKafkaEventPublisher]
        keepP == {kb1[b].producer : b \in BusIds}
                 \cup {pub1[q].producer : q \in PubIds}
                 \cup {frs[t].p : t \in active}
        keepC == UNION {{kb1[b].consumers[tp] : tp \in DOMAIN kb1[b].consumers}
                          : b \in BusIds}
                 \cup {h.task[k].consumer : k \in busy}
                 \cup {frs[t].c : t \in active}
        keepK == UNION {Range(kb1[b].tasks) : b \in BusIds} \cup busy
                 \cup {frs[t].k : t \in active}
    IN [h EXCEPT
          !.kb = kb1,
          !.pub = pub1,
          !.prod = [p \in ProducerIds |->
                      IF p \notin keepP
                         /\ h.prod[p] \in {"failed", "stopped", "stop_failed"}
                      THEN "unborn" ELSE h.prod[p]],
          !.cons = [c \in ConsumerIds |->
                      IF c \notin keepC
                         /\ h.cons[c].state \in {"failed", "stopped"}
                      THEN NoConsumer ELSE h.cons[c]],
          !.task = [k \in TaskIds |->
                      IF k \notin keepK THEN NoTask ELSE h.task[k]]]

EmptyHeap ==
    [ kb    |-> [b \in BusIds |-> NoKafkaEventBus],
      pub   |-> [q \in PubIds |-> NoKafkaEventPublisher],
      app   |-> NoApplicationEventBus,
      prod  |-> [p \in ProducerIds |-> "unborn"],
      cons  |-> [c \in ConsumerIds |-> NoConsumer],
      task  |-> [k \in TaskIds |-> NoTask],
      sends |-> 0,
      \* the module global event_bus of src/src/event_bus.py: None, or the
      \* number of the ApplicationEventBus it names; apps counts the
      \* ApplicationEventBus objects get_event_bus has constructed
      event_bus |-> None,
      apps  |-> 0 ]

\* the running flag of the object a call is made on
TargetRunning(h, op, tgt) ==
    CASE op \in {"kb.start", "kb.stop", "kb.publish", "kb.subscribe"}
            -> h.kb[tgt].running
      [] op \in {"pub.start", "pub.stop", "pub.publish"}
            -> h.pub[tgt].running
      [] op \in {"app.start", "app.stop", "app.publish_event"}
            -> h.app.running
      [] OTHER -> FALSE

\* a call: the method, the object and the arguments, its outcome so far,
\* whether the object was running when the call was made, and the parity of
\* the number of calls the caller has made
NoCall ==
    [ op |-> "none", tgt |-> None, args |-> <<>>, out |-> "none", err |-> "",
      ran |-> FALSE, pre |-> <<>>, n |-> 0 ]

\* what a subscribe() finds when it is called: the handler map, the
\* consumers map and the task list of the bus
Subscriptions(h, b) ==
    [ handlers |-> h.kb[b].handlers, consumers |-> h.kb[b].consumers,
      tasks |-> h.kb[b].tasks ]

\* caller t makes a call: r is its run up to the first await or to its end
Begin(t, op, tgt, args, r) ==
    /\ frame' = [frame EXCEPT ![t] = r.fr]
    /\ heap' = Collect(r.h, frame')
    /\ call' = [call EXCEPT ![t] =
            [ op |-> op, tgt |-> tgt, args |-> args,
              out |-> IF r.out = "susp" THEN "pending" ELSE r.out,
              err |-> r.err, ran |-> TargetRunning(heap, op, tgt),
              pre |-> IF op = "kb.subscribe" THEN Subscriptions(heap, tgt)
                      ELSE <<>>,
              n |-> 1 - call[t].n ]]
    /\ UNCHANGED <<routes, nvars, cvars>>

\* the objects a caller holds: the standalone ones of dependencies.py, or,
\* of an ApplicationEventBus, the components its getters return
HeldBuses(h) ==
    IF Standalone(h) THEN {b \in BusIds : h.kb[b].exists}
    ELSE {h.app.kafka_event_bus} \ {None}

HeldPublishers(h) ==
    IF Standalone(h) THEN {q \in PubIds : h.pub[q].exists}
    ELSE {h.app.event_publisher} \ {None}

KafkaEventBus_start(t) ==
    /\ frame[t] = Idle
    /\ Standalone(heap)
    /\ \E b \in HeldBuses(heap) :
        /\ heap.kb[b].running \/ Unborn(heap.prod) # {}
        /\ Begin(t, "kb.start", b, <<>>, KB_start(heap, b, Frame("kb.start")))

KafkaEventBus_stop(t) ==
    /\ frame[t] = Idle
    /\ Standalone(heap)
    /\ \E b \in HeldBuses(heap) :
        Begin(t, "kb.stop", b, <<>>, KB_stop(heap, b, Frame("kb.stop")))

KafkaEventBus_publish(t) ==
    /\ frame[t] = Idle
    /\ heap.sends < MaxSends
    /\ \E b \in HeldBuses(heap) :
        Begin(t, "kb.publish", b, <<>>,
              KB_publish(heap, b, Frame("kb.publish")))

\* the subscriptions callers make: by one event type, by two, and with an
\* explicit topic
SubscribeArgs ==
    { [event_types |-> <<"user.created">>, handler |-> "handle_user_created",
       topic |-> "", group_id |-> ""],
      [event_types |-> <<"user.updated">>, handler |-> "handle_user_created",
       topic |-> "", group_id |-> ""],
      [event_types |-> <<"user.created", "task.completed">>,
       handler |-> "handle_task_completed", topic |-> "", group_id |-> ""],
      [event_types |-> <<"task.completed">>,
       handler |-> "handle_task_completed", topic |-> "user.events",
       group_id |-> "notification-service"] }

\* number of handler registrations held by the buses bs
RECURSIVE AllRegistrations(_, _)
AllRegistrations(h, bs) ==
    IF bs = {} THEN 0
    ELSE LET b == CHOOSE x \in bs : TRUE
         IN Registrations(h.kb[b].handlers) + AllRegistrations(h, bs \ {b})

KafkaEventBus_subscribe(t) ==
    /\ frame[t] = Idle
    /\ \E b \in HeldBuses(heap), a \in SubscribeArgs :
        /\ AllRegistrations(heap, BusIds) + Len(a.event_types) <= MaxSubs
        /\ Unborn(ConsumerStates(heap)) # {}
        /\ Unborn(TaskStates(heap)) # {}
        /\ Begin(t, "kb.subscribe", b, a,
                 KB_subscribe(heap, b, a.event_types, a.handler, a.topic,
                              a.group_id, Frame("kb.subscribe")))

KafkaEventPublisher_start(t) ==
    /\ frame[t] = Idle
    /\ Standalone(heap)
    /\ \E q \in HeldPublishers(heap) :
        /\ heap.pub[q].running \/ Unborn(heap.prod) # {}
        /\ Begin(t, "pub.start", q, <<>>,
                 PUB_start(heap, q, Frame("pub.start")))

KafkaEventPublisher_stop(t) ==
    /\ frame[t] = Idle
    /\ Standalone(heap)
    /\ \E q \in HeldPublishers(heap) :
        Begin(t, "pub.stop", q, <<>>, PUB_stop(heap, q, Frame("pub.stop")))

KafkaEventPublisher_publish(t) ==
    /\ frame[t] = Idle
    /\ heap.sends < MaxSends
    /\ \E q \in HeldPublishers(heap) :
        Begin(t, "pub.publish", q, <<>>,
              PUB_publish(heap, q, Frame("pub.publish")))

ApplicationEventBus_start(t) ==
    /\ frame[t] = Idle
    /\ heap.app.exists
    /\ \/ heap.app.running
       \/ /\ Cardinality(Unborn(heap.prod)) >= 2
          /\ Unborn(BusStates(heap)) # {}
          /\ Unborn(PublisherStates(heap)) # {}
    /\ Begin(t, "app.start", None, <<>>, APP_start(heap, Frame("app.start")))

ApplicationEventBus_stop(t) ==
    /\ frame[t] = Idle
    /\ heap.app.exists
    /\ Begin(t, "app.stop", None, <<>>, APP_stop(heap, Frame("app.stop")))

ApplicationEventBus_publish_event(t) ==
    /\ frame[t] = Idle
    /\ heap.app.exists
    /\ heap.sends < MaxSends
    /\ Begin(t, "app.publish_event", None, <<>>,
             APP_publish_event(heap, Frame("app.publish_event")))

-----------------------------------------------------------------------------
(* The global handle: get_event_bus and shutdown_event_bus of
   src/src/event_bus.py *)

\* get_event_bus up to the first await of "await event_bus.start()", or to
\* "return event_bus"
GET_event_bus(h, fr) ==
    IF h.event_bus = None
    THEN APP_start([h EXCEPT !.apps = @ + 1, !.event_bus = h.apps + 1,
                             !.app = NewApplicationEventBus], fr)
    ELSE Done(h, "ret", "")

\* shutdown_event_bus without its last line "event_bus = None"
SHUTDOWN_end_keep(r) == r

\* shutdown_event_bus after "await event_bus.stop()": "event_bus = None"
SHUTDOWN_end(r) ==
    IF r.out = "ret" THEN [r EXCEPT !.h.event_bus = None] ELSE r

\* shutdown_event_bus
SHUTDOWN_event_bus(h, fr) ==
    IF h.event_bus # None THEN SHUTDOWN_end(APP_stop(h, fr))
    ELSE Done(h, "ret", "")

\* the function of the module in which the method of the application bus
\* was awaited, continued when the method ends
Global_resume(op, r) ==
    IF op = "shutdown_event_bus" THEN SHUTDOWN_end(r) ELSE r

get_event_bus(t) ==
    /\ frame[t] = Idle
    /\ \/ heap.event_bus # None
       \/ /\ heap.apps < MaxApps
          /\ Cardinality(Unborn(heap.prod)) >= 2
          /\ Unborn(BusStates(heap)) # {}
          /\ Unborn(PublisherStates(heap)) # {}
    /\ Begin(t, "get_event_bus", None, <<>>,
             GET_event_bus(heap, Frame("app.start")))

shutdown_event_bus(t) ==
    /\ frame[t] = Idle
    /\ Begin(t, "shutdown_event_bus", None, <<>>,
             SHUTDOWN_event_bus(heap, Frame("app.stop")))

\* an await of caller t returns or raises: the broker client finished
\* start(), stop() or send_and_wait(), or the awaited task is done
\* the objects a continuation constructs are within the bounds: the task of
\* create_task after consumer.start(), the publisher and its producer after
\* kafka_event_bus.start()
Fits(h, fr, ok) ==
    /\ fr.at = "consumer.start" /\ ok => Unborn(TaskStates(h)) # {}
    /\ fr.op = "app.start" /\ fr.in = "kb.start" /\ ok =>
          /\ Unborn(PublisherStates(h)) # {}
          /\ \E p \in Unborn(h.prod) : p # fr.p

AwaitReturns(t) ==
    /\ frame[t] # Idle
    /\ \E ok \in BOOLEAN :
        /\ frame[t].at = "task" =>
              /\ ok
              /\ heap.task[frame[t].k].state = "done"
        /\ Fits(heap, frame[t], ok)
        /\ LET r == Global_resume(call[t].op, Resume(heap, frame[t], ok))
           IN /\ frame' = [frame EXCEPT ![t] = r.fr]
              /\ heap' = Collect(r.h, frame')
              /\ call' = [call EXCEPT ![t].out =
                            IF r.out = "susp" THEN "pending" ELSE r.out,
                          ![t].err = r.err]
    /\ UNCHANGED <<routes, nvars, cvars>>

\* _consume_messages of a cancelled task: CancelledError is raised in it, the
\* finally stops the consumer and the task is done
TaskCancelled ==
    /\ \E k \in TaskIds :
        /\ heap.task[k].state = "cancelled"
        /\ heap' = Collect([heap EXCEPT
                              !.task[k].state = "done",
                              !.cons[heap.task[k].consumer].state = "stopped"],
                           frame)
    /\ UNCHANGED <<frame, call, routes, nvars, cvars>>

\* _consume_messages when the iteration over the consumer raises: the error
\* is logged, the finally stops the consumer and the task is done
ConsumerError ==
    /\ \E k \in TaskIds :
        /\ heap.task[k].state = "live"
        /\ heap' = Collect([heap EXCEPT
                              !.task[k].state = "done",
                              !.cons[heap.task[k].consumer].state = "stopped"],
                           frame)
    /\ UNCHANGED <<frame, call, routes, nvars, cvars>>

-----------------------------------------------------------------------------
(* The event module used directly: the factory applied to tags and keyword
   arguments, and events of every registered class encoded and decoded *)

NothingMade == [op |-> "none"]

\* tags outside the registry
UnknownTags == {"foo.bar", "bogus.tag", ""}

\* keyword arguments a caller passes to the factory; the last one is a
\* decoded message, which carries the key "event_type"
FactoryKwargs ==
    { EmptyDict,
      [k \in {"aggregate_id", "aggregate_type"} |->
          IF k = "aggregate_id" THEN "42" ELSE "User"],
      [k \in {"data"} |-> [email |-> "a@b.com"]],
      [k \in {"version", "metadata"} |->
          IF k = "version" THEN 2 ELSE [source |-> "api"]],
      to_dict(UserCreated) }

\* events of the registered classes: defaults, producer-style fields, an
\* overridden event_type, version and metadata
EventsOf(class) ==
    { NewEvent(class, kwargs, id, on) :
        kwargs \in { EmptyDict,
                     [k \in {"aggregate_id", "aggregate_type", "data"} |->
                        CASE k = "aggregate_id"   -> "42"
                          [] k = "aggregate_type" -> "User"
                          [] k = "data" -> [email |-> "a@b.com"]],
                     [k \in {"event_type", "version", "metadata"} |->
                        CASE k = "event_type" -> "custom.tag"
                          [] k = "version"    -> 2
                          [] k = "metadata"   -> [source |-> "api"]] },
        id \in 1..MaxEventIds, on \in 1..MaxEventIds }

RegisteredClasses == { EVENT_REGISTRY[t] : t \in DOMAIN EVENT_REGISTRY }

\* create_event_from_type(tag, **kwargs)
CreateEventFromType ==
    /\ \E tag \in DOMAIN EVENT_REGISTRY \cup UnknownTags,
          kwargs \in FactoryKwargs, id \in 1..MaxEventIds :
        evt' = [op |-> "create_event_from_type", tag |-> tag,
                 kwargs |-> kwargs,
                 out |-> create_event_from_type(tag, kwargs, id, id)]
    /\ UNCHANGED <<log, offset, handlers, invoked, alive, nvars, bvars>>

\* type(e).from_dict(e.to_dict()); the constructor defaults that from_dict
\* could fall back on are a new event_id and the time of the call
DecodeEncoded ==
    /\ \E class \in RegisteredClasses : \E e \in EventsOf(class) :
        evt' = [op |-> "from_dict", e |-> e,
                 out |-> from_dict(class, to_dict(e), MaxEventIds + 1,
                                   MaxEventIds + 1)]
    /\ UNCHANGED <<log, offset, handlers, invoked, alive, nvars, bvars>>

\* a message without the optional key: from_dict(d) for d without "metadata"
DecodeWithoutMetadata ==
    /\ \E class \in RegisteredClasses : \E e \in EventsOf(class) :
        LET d == to_dict(e)
            short == [k \in DOMAIN d \ {"metadata"} |-> d[k]]
        IN evt' = [op |-> "from_dict_partial", e |-> e,
                    out |-> from_dict(class, short, MaxEventIds + 1,
                                      MaxEventIds + 1)]
    /\ UNCHANGED <<log, offset, handlers, invoked, alive, nvars, bvars>>

-----------------------------------------------------------------------------
(* Topic routing: the defaults of publish() and subscribe(), applied to the
   events the services produce and to the event types a service may list *)

\* the aggregate_type the producers of the repository give each event type
\* they publish (user and task command handlers, the orchestrator, and the
\* ServiceStartedEvent of the services' startup)
ProducerAggregateType ==
    [ t \in {"user.created", "user.updated", "user.authenticated",
             "task.created", "task.updated", "task.completed", "task.deleted",
             "system.service_started"} |->
        CASE SplitFirst(t) = "user" -> "User"
          [] SplitFirst(t) = "task" -> "Task"
          [] OTHER                  -> "Service" ]

\* the event a producer builds for the event type t
Produced(t) ==
    NewEvent(EVENT_REGISTRY[t],
             [k \in {"aggregate_type"} |-> ProducerAggregateType[t]], 1, 1)

\* the lists of event types a subscribe call may pass: registered tags,
\* at most n of them
RECURSIVE TypeLists(_)
TypeLists(n) ==
    IF n = 0 THEN {<<>>}
    ELSE LET shorter == TypeLists(n - 1)
         IN shorter \cup
            { Append(ts, t) : ts \in {x \in shorter : Len(x) = n - 1},
                              t \in DOMAIN EVENT_REGISTRY }

NoRoute == [topic |-> ""]

NoRoutes == [published |-> NoRoute, subscribed |-> NoRoute]

\* publish(event) without a topic
RoutePublish ==
    /\ \E t \in DOMAIN ProducerAggregateType :
        routes' = [routes EXCEPT !.published =
                      [event_type |-> t,
                       topic |-> PublishTopic(Produced(t), "")]]
    /\ UNCHANGED <<heap, frame, call, nvars, cvars>>

\* subscribe(event_types, handler) without a topic and a group_id
RouteSubscribe ==
    /\ \E event_types \in TypeLists(MaxTypes) \ {<<>>} :
        /\ \A i, j \in 1..Len(event_types) :
              event_types[i] = event_types[j] => i = j
        /\ LET topic == SubscribeTopic(event_types, "")
           IN routes' = [routes EXCEPT !.subscribed =
                            [event_types |-> event_types,
                             topic |-> topic,
                             group_id |-> SubscribeGroup(topic, "")]]
    /\ UNCHANGED <<heap, frame, call, nvars, cvars>>

-----------------------------------------------------------------------------
(* Specifications *)

vars == <<db, clock, ret, saves, env, resets, log, offset, handlers, invoked,
          alive, evt, heap, frame, call, routes>>

NotifInit ==
    /\ db = [i \in {} |-> NoNotification]
    /\ clock = 0
    /\ ret = NoRet
    /\ saves = <<>>
    /\ env = Quiet
    /\ resets = [i \in NotifIds |-> 0]

IdleConsumers ==
    /\ log = <<>>
    /\ offset = [c \in Consumers |-> 0]
    /\ handlers = [c \in Consumers |-> NoHandlers]
    /\ invoked = [c \in Consumers |-> <<>>]
    /\ alive = [c \in Consumers |-> FALSE]
    /\ evt = NothingMade

\* the callers of the bus objects; one caller makes its calls one after the
\* other
Callers == {1, 2}

NoBus ==
    /\ heap = EmptyHeap
    /\ frame = [t \in Callers |-> Idle]
    /\ call = [t \in Callers |-> NoCall]
    /\ routes = NoRoutes

\* the notification service driven through its operations
Init == NotifInit /\ IdleConsumers /\ NoBus

Next == CreateNotification \/ SendNotification \/ RetryFailedNotification

Spec == Init /\ [][Next]_vars

\* one consume loop, its subscriptions and the messages of its topic
ConsumeInit ==
    /\ NotifInit
    /\ log = <<>>
    /\ offset = [c \in Consumers |-> 0]
    /\ handlers = [c \in Consumers |-> NoHandlers]
    /\ invoked = [c \in Consumers |-> <<>>]
    /\ \E running \in Consumers : alive = [c \in Consumers |-> c = running]
    /\ evt = NothingMade
    /\ NoBus

ConsumeNext ==
    \/ Produce
    \/ BusSubscribe
    \/ ConsumerSubscribe
    \/ BusConsumeMessages
    \/ ConsumerConsumeMessages

SpecConsume == ConsumeInit /\ [][ConsumeNext]_vars

\* one of: a standalone KafkaEventBus, a standalone KafkaEventPublisher
\* (src/src/dependencies.py), an ApplicationEventBus (src/src/event_bus.py)
BusInit ==
    /\ NotifInit
    /\ IdleConsumers
    /\ frame = [t \in Callers |-> Idle]
    /\ call = [t \in Callers |-> NoCall]
    /\ routes = NoRoutes
    /\ \/ heap = [EmptyHeap EXCEPT !.kb[1] = NewKafkaEventBus]
       \/ heap = [EmptyHeap EXCEPT !.pub[1] = NewKafkaEventPublisher]
       \/ heap = [EmptyHeap EXCEPT !.app = NewApplicationEventBus]

BusNext(T) ==
    \/ \E t \in T :
        \/ KafkaEventBus_start(t)
        \/ KafkaEventBus_stop(t)
        \/ KafkaEventBus_publish(t)
        \/ KafkaEventBus_subscribe(t)
        \/ KafkaEventPublisher_start(t)
        \/ KafkaEventPublisher_stop(t)
        \/ KafkaEventPublisher_publish(t)
        \/ ApplicationEventBus_start(t)
        \/ ApplicationEventBus_stop(t)
        \/ ApplicationEventBus_publish_event(t)
        \/ AwaitReturns(t)
    \/ TaskCancelled
    \/ ConsumerError

\* the bus objects used by one caller
SpecBus == BusInit /\ [][BusNext({1})]_vars

\* a service that reaches the application bus through the global handle
\* only (the lifespan functions of src/main.py and of the services)
GlobalInit ==
    /\ NotifInit
    /\ IdleConsumers
    /\ NoBus

\* "event_bus = await get_event_bus()" followed by a call on the handle
HandlePublishEvent(t) ==
    /\ heap.event_bus # None
    /\ ApplicationEventBus_publish_event(t)

HandleSubscribe(t) ==
    /\ heap.event_bus # None
    /\ KafkaEventBus_subscribe(t)

GlobalNext(T) ==
    \/ \E t \in T :
        \/ get_event_bus(t)
        \/ shutdown_event_bus(t)
        \/ HandlePublishEvent(t)
        \/ HandleSubscribe(t)
        \/ AwaitReturns(t)
    \/ TaskCancelled
    \/ ConsumerError

SpecGlobal == GlobalInit /\ [][GlobalNext({1})]_vars

\* one Notification object and its methods
EntityNext ==
    \/ Notification_create
    \/ Notification_mark_sent
    \/ Notification_mark_delivered
    \/ Notification_mark_failed
    \/ Notification_increment_retry
    \/ Notification_can_retry
    \/ Notification_reset_for_retry

SpecEntity == Init /\ [][EntityNext]_vars

\* the notification service called by the API and by the event handlers,
\* observed for MaxCalls calls: the clock of the first one is arbitrary
ServiceInit ==
    /\ db = [i \in {} |-> NoNotification]
    /\ clock = MaxSteps - MaxCalls
    /\ ret = NoRet
    /\ saves = <<>>
    /\ env = Quiet
    /\ resets = [i \in NotifIds |-> 0]
    /\ IdleConsumers
    /\ NoBus

ServiceNext ==
    \/ CreateNotification
    \/ SendNotification
    \/ RetryFailedNotification
    \/ HandleUserCreated
    \/ HandleTaskCompleted

SpecService == ServiceInit /\ [][ServiceNext]_vars

\* the event module: factory and codec
EventsNext == CreateEventFromType \/ DecodeEncoded \/ DecodeWithoutMetadata

SpecEvents == Init /\ [][EventsNext]_vars

\* the default topics of publish and subscribe
RoutingNext == RoutePublish \/ RouteSubscribe

SpecRouting == Init /\ [][RoutingNext]_vars


\* one KafkaEventBus shared by two callers whose start() and subscribe()
\* calls interleave at their awaits
KafkaBusInit ==
    /\ NotifInit
    /\ IdleConsumers
    /\ frame = [t \in Callers |-> Idle]
    /\ call = [t \in Callers |-> NoCall]
    /\ routes = NoRoutes
    /\ heap = [EmptyHeap EXCEPT !.kb[1] = NewKafkaEventBus]

OverlapSubscribeNext ==
    \E t \in Callers :
        \/ KafkaEventBus_start(t)
        \/ KafkaEventBus_subscribe(t)
        \/ AwaitReturns(t)

SpecOverlapSubscribe == KafkaBusInit /\ [][OverlapSubscribeNext]_vars


\* two callers obtain the global handle while it is being started and
\* publish through it; nobody shuts the bus down
OverlapGetNext ==
    \E t \in Callers :
        \/ get_event_bus(t)
        \/ HandlePublishEvent(t)
        \/ AwaitReturns(t)

SpecOverlapGet == GlobalInit /\ [][OverlapGetNext]_vars


\* one KafkaEventBus whose start() and stop() are called by two callers
OverlapStartNext ==
    \E t \in Callers :
        \/ KafkaEventBus_start(t)
        \/ KafkaEventBus_stop(t)
        \/ AwaitReturns(t)

SpecOverlapStart == KafkaBusInit /\ [][OverlapStartNext]_vars


\* a bus, a publisher or an application bus on which two callers start,
\* stop and publish; there are no subscriptions
OverlapStopNext ==
    \E t \in Callers :
        \/ KafkaEventBus_start(t)
        \/ KafkaEventBus_stop(t)
        \/ KafkaEventBus_publish(t)
        \/ KafkaEventPublisher_start(t)
        \/ KafkaEventPublisher_stop(t)
        \/ KafkaEventPublisher_publish(t)
        \/ ApplicationEventBus_start(t)
        \/ ApplicationEventBus_stop(t)
        \/ ApplicationEventBus_publish_event(t)
        \/ AwaitReturns(t)

SpecOverlapStop == BusInit /\ [][OverlapStopNext]_vars

-----------------------------------------------------------------------------
(* Properties of the consume loops *)

\* consumer c takes the next message of the log in this step
Took(c) == offset'[c] = offset[c] + 1

\* the message consumer c takes next
Msg(c) == log[offset[c] + 1]

\* its event_type is a registered tag for which c holds handlers
Dispatchable(c) ==
    /\ "event_type" \in DOMAIN Msg(c)
    /\ Msg(c)["event_type"] \in DOMAIN EVENT_REGISTRY
    /\ Msg(c)["event_type"] \in DOMAIN handlers[c]

\* the handlers c holds for the message it takes next
MsgHandlers(c) == handlers[c][Msg(c)["event_type"]]

\* the handler invocations made in this step, in the order made
NewCalls(c) == SubSeq(invoked'[c], Len(invoked[c]) + 1, Len(invoked'[c]))

HandlerNames(calls) == [i \in 1..Len(calls) |-> calls[i].handler]

\* C1: a message whose event_type is a registered tag with registered handlers
\* has every handler of that event_type invoked exactly once, in registration
\* order, one after the other, while the loop processes it.
C1_DispatchInRegistrationOrder ==
    [][\A c \in Consumers :
        (Took(c) /\ Dispatchable(c))
            => HandlerNames(NewCalls(c)) = MsgHandlers(c)]_vars

\* C2: when a handler registered for the message's event_type raises, the
\* other handlers of that event_type are still invoked for the message and the
\* consume task stays alive; the message after one with a raising handler is
\* still dispatched to its handlers.
C2_HandlerIsolation ==
    [][\A c \in Consumers :
        (/\ Took(c)
         /\ Dispatchable(c)
         /\ \/ "h_raise" \in Range(MsgHandlers(c))
            \/ /\ offset[c] > 0
               /\ \E k \in 1..Len(invoked[c]) :
                    /\ invoked[c][k].msg = offset[c]
                    /\ invoked[c][k].raised)
            => /\ alive'[c]
               /\ Range(MsgHandlers(c)) \subseteq Range(HandlerNames(NewCalls(c)))]_vars

\* C3: the notification service's consumer, with handle_user_created
\* subscribed to "user.created", takes a published user.created event that
\* carries an email: when delivery and persistence succeed, a notification of
\* type EMAIL addressed to that email is created PENDING, then sent, and ends
\* SENT.
C3_UserCreatedEndsSent ==
    [][(/\ Took("KafkaEventConsumer")
        /\ Msg("KafkaEventConsumer") = to_dict(UserCreated)
        /\ "user.created" \in DOMAIN handlers["KafkaEventConsumer"]
        /\ "handle_user_created"
              \in Range(handlers["KafkaEventConsumer"]["user.created"])
        /\ env' = Quiet)
            => \E id \in DOMAIN db' \ DOMAIN db :
                /\ db'[id].type = "email"
                /\ db'[id].recipient = UserCreated.fields["data"].email
                /\ db'[id].status = "sent"
                /\ \E i \in 1..Len(saves') : \E j \in (i+1)..Len(saves') :
                    /\ saves'[i].id = id /\ saves'[i].status = "pending"
                    /\ saves'[j].id = id /\ saves'[j].status = "sent"]_vars

-----------------------------------------------------------------------------
(* Properties of the notification state machine *)

\* the edges of the state machine
StatusEdges ==
    { <<"pending", "sent">>, <<"pending", "failed">>, <<"failed", "pending">>,
      <<"sent", "delivered">> }

\* the persisted entity that save number i of this step overwrites
Overwritten(i) ==
    IF i > 1 THEN saves'[i - 1] ELSE get_by_id(db, saves'[1].id)

\* C4: every save of a service operation either stores a new notification or
\* moves the stored status along an edge of the state machine, FAILED to
\* PENDING only with retry_count < max_retries.
C4_StatusFollowsEdges ==
    [][clock' # clock =>
        \A i \in 1..Len(saves') :
            LET old == Overwritten(i)
                new == saves'[i]
            IN \/ old = NoNotification
               \/ /\ <<old.status, new.status>> \in StatusEdges
                  /\ (old.status = "failed" /\ new.status = "pending")
                        => old.retry_count < old.max_retries]_vars

\* C5: while no delivery attempt has succeeded, a notification has been reset
\* from FAILED to PENDING at most max_retries times.
C5_RetryBudget ==
    \A id \in DOMAIN db :
        db[id].sent_at = None => resets[id] <= db[id].max_retries

-----------------------------------------------------------------------------
(* Properties of the bus lifecycle *)

\* caller t makes a call in this step
Calls(t) == call'[t].n # call[t].n

\* the consume tasks of bus b that have not finished
Unfinished(h, b) ==
    {k \in TaskIds : h.task[k].bus = b /\ h.task[k].state \in {"live", "cancelled"}}

\* the producers an object refers to: a bus or a publisher its own, the
\* application bus those of its two components
Producers(h, kind, x) ==
    CASE kind = "kb"  -> {h.kb[x].producer} \ {None}
      [] kind = "pub" -> {h.pub[x].producer} \ {None}
      [] kind = "app" ->
            ({IF h.app.kafka_event_bus = None THEN None
              ELSE h.kb[h.app.kafka_event_bus].producer}
             \cup {IF h.app.event_publisher = None THEN None
                   ELSE h.pub[h.app.event_publisher].producer}) \ {None}

\* the bus whose stop() caller t is in: the bus itself, or the KafkaEventBus
\* of the application bus
StoppingBus(t) ==
    IF frame[t].op = "kb.stop" THEN frame[t].b ELSE heap.app.kafka_event_bus

\* while a stop() of a bus awaits the stop of a producer, no consume task of
\* the bus is unfinished
TasksDoneBeforeProducerStop ==
    \A t \in Callers :
        (frame[t].op \in {"kb.stop", "app.stop"} /\ frame[t].at = "producer.stop")
            => Unfinished(heap, StoppingBus(t)) = {}

\* a running flag goes from true to false only when the producers of the
\* object are no longer starting, started or being stopped
FlagAfterProducerStop ==
    /\ \A b \in BusIds :
        (heap.kb[b].running /\ heap'.kb[b].exists /\ ~heap'.kb[b].running)
            => \A p \in Producers(heap, "kb", b) :
                   heap'.prod[p] \notin {"starting", "started", "stopping"}
    /\ (heap.app.running /\ ~heap'.app.running)
            => \A p \in Producers(heap, "app", None) :
                   heap'.prod[p] \notin {"starting", "started", "stopping"}

\* C6: in ApplicationEventBus.stop() and in KafkaEventBus.stop() every consume
\* task has been cancelled and has completed before any producer is stopped,
\* and the running flag becomes false only after the producer has been stopped.
C6_ShutdownOrdering ==
    [][TasksDoneBeforeProducerStop' /\ FlagAfterProducerStop]_vars

\* C7: on a running bus (ApplicationEventBus or KafkaEventBus), of two stop()
\* calls in succession the second performs no cancel, no producer stop and no
\* state change, and the bus is left not running with zero consume tasks.
C7_IdempotentStop ==
    [][\A t \in Callers :
        ( /\ Calls(t)
          /\ call'[t].op \in {"kb.stop", "app.stop"}
          /\ call[t].op = call'[t].op
          /\ call[t].tgt = call'[t].tgt
          /\ call[t].ran )
        => LET b == IF call'[t].op = "kb.stop" THEN call'[t].tgt
                    ELSE heap.app.kafka_event_bus
           IN /\ heap' = heap
              /\ frame'[t] = Idle
              /\ ~TargetRunning(heap', call'[t].op, call'[t].tgt)
              /\ heap'.kb[b].tasks = <<>>
              /\ Unfinished(heap', b) = {}]_vars

\* the life of the object a call is made on
Life(h, op, tgt) ==
    CASE op \in {"kb.start", "kb.stop", "kb.publish", "kb.subscribe"}
            -> h.kb[tgt].life
      [] op \in {"pub.start", "pub.stop", "pub.publish"}
            -> h.pub[tgt].life
      [] OTHER -> h.app.life

PublishOps == {"kb.publish", "pub.publish", "app.publish_event"}

\* C8: ApplicationEventBus.publish_event, KafkaEventBus.publish and
\* KafkaEventPublisher.publish, called before a start() has completed or after
\* a stop() has completed, raise the not-running error and issue no send.
C8_PublishNotRunningFailsFast ==
    [][\A t \in Callers :
        ( /\ Calls(t)
          /\ call'[t].op \in PublishOps
          /\ Life(heap, call'[t].op, call'[t].tgt) # "started" )
        => /\ call'[t].out = "raise"
           /\ call'[t].err = "not_running"
           /\ frame'[t] = Idle
           /\ heap'.sends = heap.sends]_vars

\* a publish was made on an object that had been started and then stopped,
\* and it raised the not-running error
C8_Witness ==
    \E t \in Callers :
        /\ call[t].op \in PublishOps
        /\ call[t].out = "raise"
        /\ call[t].err = "not_running"
        /\ Life(heap, call[t].op, call[t].tgt) = "stopped"

\* no caller is inside a lifecycle or subscribe call of bus b
Settled(b) ==
    \A t \in Callers :
        frame[t] = Idle \/ frame[t].b # b

\* bus b has exactly one consumer and one consume task for each topic
\* subscribed since it started
OnePerTopic(b) ==
    LET B == heap.kb[b]
    IN /\ DOMAIN B.consumers = B.subscribed
       /\ Len(B.tasks) = Cardinality(B.subscribed)
       /\ \A tp \in B.subscribed :
            /\ heap.cons[B.consumers[tp]].topic = tp
            /\ \A tq \in B.subscribed :
                  B.consumers[tp] = B.consumers[tq] => tp = tq
            /\ \E i \in 1..Len(B.tasks) :
                  /\ heap.task[B.tasks[i]].topic = tp
                  /\ heap.task[B.tasks[i]].consumer = B.consumers[tp]
                  /\ \A j \in 1..Len(B.tasks) :
                        heap.task[B.tasks[j]].topic = tp => j = i

OnePerTopicAll ==
    \A b \in BusIds :
        (heap.kb[b].exists /\ heap.kb[b].running /\ Settled(b)) => OnePerTopic(b)

\* a subscribe to a topic that has a consumer returns, creates no consumer
\* and no task, and appends the handler under each given event type
ResubscribeOnlyRegisters ==
    \A t \in Callers :
        ( /\ Calls(t)
          /\ call'[t].op = "kb.subscribe"
          /\ heap.kb[call'[t].tgt].running
          /\ SubscribeTopic(call'[t].args.event_types, call'[t].args.topic)
                \in DOMAIN heap.kb[call'[t].tgt].consumers )
        => LET b == call'[t].tgt
               a == call'[t].args
               old == heap.kb[b].handlers
               new == heap'.kb[b].handlers
           IN /\ call'[t].out = "ret"
              /\ heap'.cons = heap.cons
              /\ heap'.task = heap.task
              /\ heap'.kb[b].consumers = heap.kb[b].consumers
              /\ heap'.kb[b].tasks = heap.kb[b].tasks
              /\ DOMAIN new = DOMAIN old \cup Range(a.event_types)
              /\ \A et \in DOMAIN new :
                    new[et] =
                        IF et \in Range(a.event_types)
                        THEN Append(IF et \in DOMAIN old THEN old[et] ELSE <<>>,
                                    a.handler)
                        ELSE old[et]

\* C9: after any sequence of completed KafkaEventBus.subscribe calls there is
\* exactly one consumer and one consume task per distinct subscribed topic; a
\* subscribe to a topic that already has a consumer only appends the handler
\* under each given event type and creates no new consumer or task.
C9_OneConsumerPerTopic ==
    [][OnePerTopicAll' /\ ResubscribeOnlyRegisters]_vars

\* two event types of one topic were subscribed one after the other: one
\* consumer, one task, both handlers registered
C9_Witness ==
    \E b \in BusIds :
        /\ heap.kb[b].running
        /\ call[1].op = "kb.subscribe"
        /\ call[1].out = "ret"
        /\ DOMAIN heap.kb[b].handlers = {"user.created", "user.updated"}
        /\ DOMAIN heap.kb[b].consumers = {"user.events"}
        /\ Len(heap.kb[b].tasks) = 1

StartOps == {"kb.start", "pub.start", "app.start"}

\* C10: start() on an ApplicationEventBus, KafkaEventBus or
\* KafkaEventPublisher that is already running creates no new producer,
\* replaces no existing component and leaves all state unchanged.
C10_IdempotentStart ==
    [][\A t \in Callers :
        ( /\ Calls(t)
          /\ call'[t].op \in StartOps
          /\ TargetRunning(heap, call'[t].op, call'[t].tgt) )
        => /\ heap' = heap
           /\ frame'[t] = Idle
           /\ call'[t].out = "ret"]_vars

\* start() was called on a running ApplicationEventBus and returned
C10_Witness ==
    \E t \in Callers :
        /\ call[t].op = "app.start"
        /\ call[t].ran
        /\ call[t].out = "ret"
        /\ heap.app.running

-----------------------------------------------------------------------------
(* Properties of the global handle *)

\* caller t ends in this step the call it was suspended in
Completes(t) == call[t].out = "pending" /\ call'[t].out # "pending"

\* C11: the first get_event_bus() constructs one ApplicationEventBus and
\* starts it; every later get_event_bus() before shutdown_event_bus() returns
\* that same instance without constructing or starting another; after
\* shutdown_event_bus() the handle is empty and the next get_event_bus()
\* constructs and starts a fresh instance.
C11_LazySingleton ==
    [][ /\ heap'.event_bus \in {None, heap'.apps}
        /\ \A t \in Callers :
            /\ ( Calls(t) /\ call'[t].op = "get_event_bus"
                 /\ heap.event_bus = None )
               => /\ heap'.apps = heap.apps + 1
                  /\ heap'.event_bus = heap'.apps
                  /\ heap'.app.life = "init"
                  /\ ~heap'.app.running
                  /\ frame'[t].op = "app.start"
                  /\ frame'[t].at = "producer.start"
            /\ ( Calls(t) /\ call'[t].op = "get_event_bus"
                 /\ heap.event_bus # None )
               => /\ heap' = heap
                  /\ frame'[t] = Idle
                  /\ call'[t].out = "ret"
            /\ ( Completes(t) /\ call'[t].op = "get_event_bus" )
               => /\ heap'.event_bus = heap.event_bus
                  /\ heap'.apps = heap.apps
                  /\ call'[t].out = "ret" => heap'.app.running
            /\ ( (Calls(t) \/ Completes(t))
                 /\ call'[t].op = "shutdown_event_bus"
                 /\ call'[t].out # "pending" )
               => /\ call'[t].out = "ret"
                  /\ heap'.event_bus = None
                  /\ heap'.apps = heap.apps ]_vars

\* after a shutdown, get_event_bus has constructed and started a second
\* instance
C11_Witness ==
    /\ call[1].op = "get_event_bus"
    /\ call[1].out = "ret"
    /\ heap.apps = 2
    /\ heap.event_bus = 2
    /\ heap.app.running

-----------------------------------------------------------------------------
(* Properties of the Notification entity *)

\* the entity the methods are called on
Entity == db[1]

\* C12: can_retry() answers true exactly when the status is FAILED and
\* retry_count < max_retries, whatever the status and the retry_count are:
\* false for PENDING, SENT and DELIVERED, false for FAILED with the budget
\* used up.
C12_CanRetryIffFailedWithinBudget ==
    ret.op = "can_retry" =>
        /\ ret.result \in {"True", "False"}
        /\ ret.result = "True" <=>
               (Entity.status = "failed"
                    /\ Entity.retry_count < Entity.max_retries)
        /\ Entity.status \in {"pending", "sent", "delivered"}
               => ret.result = "False"
        /\ (Entity.status = "failed"
               /\ Entity.retry_count >= Entity.max_retries)
               => ret.result = "False"

\* can_retry() asked of a FAILED notification whose budget is used up
C12_Witness ==
    /\ ret.op = "can_retry"
    /\ Entity.status = "failed"
    /\ Entity.retry_count >= Entity.max_retries
    /\ ret.result = "False"

\* the states reset_for_retry() refuses
NotRetryable(n) ==
    \/ n.status \in {"pending", "sent", "delivered"}
    \/ n.status = "failed" /\ n.retry_count >= n.max_retries

\* the step is a call of the entity method op
EntityStep(op) == clock' # clock /\ ret'.op = op

\* C13: reset_for_retry() on a notification that is not retryable (PENDING,
\* SENT, DELIVERED, or FAILED with retry_count >= max_retries) raises and
\* leaves every field of the notification as it was.
C13_ResetRefusedLeavesEntity ==
    [][ (EntityStep("reset_for_retry") /\ NotRetryable(Entity))
            => (ret'.result = "raised" /\ db' = db) ]_vars

\* a refused reset of a FAILED notification whose budget is used up
C13_Witness ==
    /\ ret.op = "reset_for_retry"
    /\ ret.result = "raised"
    /\ Entity.status = "failed"
    /\ Entity.retry_count >= Entity.max_retries
    /\ Entity.error_message = "error"

\* C15: in every state reached through the entity's methods or the service
\* operations, a PENDING notification has retry_count <= max_retries.
C15_PendingWithinBudget ==
    \A id \in DOMAIN db :
        db[id].status = "pending" => db[id].retry_count <= db[id].max_retries

-----------------------------------------------------------------------------
(* Properties of the notification service calls *)

\* the step is a direct call of the service operation op
ServiceStep(op) == clock' # clock /\ ret'.op = op

\* the delivery strategy or a save raised after the entity was loaded
RaisedWhileSending(f) == ~f.get /\ (f.deliver \/ f.save \/ f.save2)

\* C14: send_notification(id) on an existing notification reports failure by
\* its return value and never by raising: when the delivery strategy or a
\* persistence call raises, the notification ends FAILED with error_message
\* set and retry_count unchanged, that state is persisted, and False is
\* returned.
C14_SendReportsFailureByValue ==
    [][ (/\ ServiceStep("send_notification")
         /\ ret'.id \in DOMAIN db
         /\ RaisedWhileSending(env'.f))
        => (/\ ret'.result = "False"
            /\ db'[ret'.id].status = "failed"
            /\ db'[ret'.id].error_message # "None"
            /\ db'[ret'.id].retry_count = db[ret'.id].retry_count
            /\ saves' = <<db'[ret'.id]>>) ]_vars

\* C16: sent_at is written only by the transition to SENT: a step that
\* changes the sent_at of a notification leaves it SENT (so the failure path
\* of send_notification and the reset of retry_failed_notification leave
\* sent_at alone), and a notification that is new has sent_at unset.
C16_SentAtOnlyByTransitionToSent ==
    [][ \A id \in DOMAIN db' :
            IF id \in DOMAIN db
            THEN db'[id].sent_at # db[id].sent_at => db'[id].status = "sent"
            ELSE db'[id].sent_at = None ]_vars

\* the step is a call of retry_failed_notification whose repository calls
\* (get_by_id, and the save of the reset entity) succeed
RetryStep ==
    /\ ServiceStep("retry_failed_notification")
    /\ ~env'.get_raises
    /\ ~env'.save_raises

\* what the retry finds stored under the id
Found == get_by_id(db, ret'.id)

Retryable(n) ==
    /\ n # NoNotification
    /\ n.status = "failed"
    /\ n.retry_count < n.max_retries

-----------------------------------------------------------------------------
(* Properties of the consume loops: messages that cannot be dispatched *)

\* the message c takes next carries an event_type that c holds no handlers
\* for, or one the registry cannot turn into an event
Undispatchable(c) ==
    /\ "event_type" \in DOMAIN Msg(c)
    /\ \/ Msg(c)["event_type"] \notin DOMAIN handlers[c]
       \/ Msg(c)["event_type"] \notin DOMAIN EVENT_REGISTRY

-----------------------------------------------------------------------------
(* Properties of the notification event handlers *)

\* the step is a call of one of the notification handlers
HandlerStep ==
    /\ clock' # clock
    /\ ret'.op \in {"handle_user_created", "handle_task_completed"}

\* the repository or the delivery failed during the step
ServiceFailed == env'.create_raises \/ env'.f # NoFault

\* C19: handle_user_created and handle_task_completed never let an exception
\* reach the consume loop: whatever the repository or the delivery raises
\* while the notification is created or sent, the handler returns normally;
\* it makes one create and at most one send, resets nothing and writes
\* nothing to a topic (no retry, no replay, no dead letter).
C19_HandlersSwallowExceptions ==
    [][ HandlerStep
        => /\ ret'.result = "None"
           /\ Len(saves') <= 2
           /\ Cardinality(DOMAIN db') <= Cardinality(DOMAIN db) + 1
           /\ env'.create_raises => (db' = db /\ saves' = <<>>)
           /\ CountResets(db, saves') = 0
           /\ resets' = resets
           /\ log' = log /\ offset' = offset /\ heap' = heap ]_vars

\* handle_user_created returned normally although the save in the except
\* branch of send_notification raised: the notification stays PENDING
C19_Witness ==
    /\ ret.op = "handle_user_created"
    /\ ret.result = "None"
    /\ env.f.save2
    /\ DOMAIN db = {1}
    /\ db[1].status = "pending"
    /\ saves = <<db[1]>>

-----------------------------------------------------------------------------
(* Properties of topic routing *)

\* C20: default routing agrees between publish and subscribe: an event of
\* type T published without a topic lands on the topic that a subscribe
\* listing T without a topic consumes, whether T is listed alone or with
\* other event types, and the default group_id is "{topic}-consumer-group".
C20_DefaultRoutingConsistent ==
    (/\ routes.published # NoRoute
     /\ routes.subscribed # NoRoute
     /\ routes.published.event_type \in Range(routes.subscribed.event_types))
        => /\ routes.published.topic = routes.subscribed.topic
           /\ routes.subscribed.group_id
                 = routes.subscribed.topic \o "-consumer-group"

-----------------------------------------------------------------------------
(* Properties of the event registry and of the event codec *)

\* C21: for every tag of EVENT_REGISTRY the factory succeeds and returns an
\* instance of the class registered under the tag, with event_type equal to
\* the tag; for a tag outside the registry it raises the unknown-event-type
\* error (ValueError) and constructs nothing.  Stated for keyword arguments
\* the factory can bind, i.e. without the key "event_type".
C21_RegistryCompleteness ==
    (evt.op = "create_event_from_type" /\ "event_type" \notin DOMAIN evt.kwargs)
        => IF evt.tag \in DOMAIN EVENT_REGISTRY
           THEN /\ evt.out.raised = "none"
                /\ evt.out.event.class = EVENT_REGISTRY[evt.tag]
                /\ evt.out.event.fields["event_type"] = evt.tag
           ELSE /\ evt.out.raised = "ValueError"
                /\ evt.out.event = None

\* the factory asked for "task.completed" with producer-style fields
C21_Witness ==
    /\ evt.op = "create_event_from_type"
    /\ evt.tag = "task.completed"
    /\ "aggregate_id" \in DOMAIN evt.kwargs
    /\ "event_type" \notin DOMAIN evt.kwargs
    /\ evt.out.raised = "none"
    /\ evt.out.event.class = "TaskCompletedEvent"
    /\ evt.out.event.fields["event_type"] = "task.completed"

\* C22: for every event e of every registered class, from_dict(to_dict(e))
\* called on e's own class yields an event of the same class that equals e
\* in all eight fields: event_id, event_type, aggregate_id, aggregate_type,
\* data, occurred_on, version and metadata.
C22_RoundTrip ==
    evt.op = "from_dict"
        => /\ evt.out.raised = "none"
           /\ evt.out.event.class = evt.e.class
           /\ \A k \in EventFields :
                 evt.out.event.fields[k] = evt.e.fields[k]

\* a NotificationSentEvent with its own event_id, an overridden event_type,
\* version 2 and metadata came back from its encoding
C22_Witness ==
    /\ evt.op = "from_dict"
    /\ evt.e.class = "NotificationSentEvent"
    /\ evt.e.fields["event_id"] = <<"UUID", 2>>
    /\ evt.e.fields["event_type"] = "custom.tag"
    /\ evt.e.fields["version"] = 2
    /\ evt.e.fields["metadata"] = [source |-> "api"]
    /\ evt.out.event = evt.e

-----------------------------------------------------------------------------
(* Overlapping calls on one bus *)

\* the consumers of topic tp that have been started and not stopped
StartedConsumers(h, tp) ==
    {c \in ConsumerIds : h.cons[c].state = "started" /\ h.cons[c].topic = tp}

\* the unfinished consume tasks of bus b for topic tp
TopicTasks(h, b, tp) == {k \in Unfinished(h, b) : h.task[k].topic = tp}

\* C23: when two KafkaEventBus.subscribe calls for the same topic overlap,
\* the second starting while the first is suspended in consumer.start(), the
\* bus ends with at most one consumer and at most one consume task for that
\* topic, so that no message is dispatched to a handler by two tasks.
C23_OverlappingSubscribeOneConsumer ==
    \A b \in BusIds :
        (heap.kb[b].exists /\ heap.kb[b].running /\ Settled(b))
            => \A c1, c2 \in ConsumerIds :
                  ( /\ heap.cons[c1].state = "started"
                    /\ heap.cons[c2].state = "started"
                    /\ heap.cons[c1].topic = heap.cons[c2].topic )
                  => /\ c1 = c2
                     /\ Cardinality(TopicTasks(heap, b, heap.cons[c1].topic)) <= 1

\* caller t is handed the global handle in this step: its get_event_bus
\* returns
HandedOut(t) ==
    /\ Calls(t) \/ Completes(t)
    /\ call'[t].op = "get_event_bus"
    /\ call'[t].out = "ret"

\* C24: every ApplicationEventBus handle returned by get_event_bus() is
\* running, so that publish_event on it does not raise the not-running
\* error: also when a second get_event_bus() runs while the first is
\* suspended inside start(), and when an earlier get_event_bus() failed
\* because start() raised.
C24_ReturnedHandleIsRunning ==
    [][\A t \in Callers :
        /\ HandedOut(t) => heap'.app.running
        /\ ( /\ Calls(t)
             /\ call[t].op = "get_event_bus"
             /\ call[t].out = "ret"
             /\ call'[t].op = "app.publish_event" )
           => call'[t].err # "not_running"]_vars

\* the producers whose start() has succeeded and whose stop() has not begun
StartedProducers(h) == {p \in ProducerIds : h.prod[p] = "started"}

\* C25: when two start() calls on the same not-yet-running bus overlap,
\* exactly one producer ends up started and every started producer is still
\* referenced by the bus, so that a later stop() stops all of them.
C25_OverlappingStartOneProducer ==
    \A b \in BusIds :
        (heap.kb[b].exists /\ Settled(b))
            => /\ StartedProducers(heap) \subseteq Producers(heap, "kb", b)
               /\ heap.kb[b].running
                    => Cardinality(StartedProducers(heap)) = 1

-----------------------------------------------------------------------------
(* Failures inside the lifecycle calls *)

\* C26: ApplicationEventBus.start() is all-or-nothing: when it raises, for
\* example because KafkaEventBus.start() succeeded and
\* KafkaEventPublisher.start() failed, no component is left running, and
\* after a later start() or stop() no started producer is left that the bus
\* does not refer to.
C26_StartAllOrNothing ==
    [][heap'.app.exists
        => /\ \A t \in Callers :
                ( /\ Completes(t)
                  /\ call'[t].op = "app.start"
                  /\ call'[t].out = "raise" )
                => /\ StartedProducers(heap') = {}
                   /\ \A b \in BusIds : ~heap'.kb[b].running
                   /\ \A q \in PubIds : ~heap'.pub[q].running
           /\ (\A t \in Callers : frame'[t] = Idle)
                => StartedProducers(heap')
                      \subseteq Producers(heap', "app", None)]_vars

\* C27: after ApplicationEventBus.stop() returns on a running bus, the bus
\* is marked not running and both the publisher and the KafkaEventBus have
\* been stopped, also when stopping one of the two raises.
C27_StopStopsBothComponents ==
    [][\A t \in Callers :
        ( /\ Calls(t) \/ Completes(t)
          /\ call'[t].op = "app.stop"
          /\ call'[t].ran
          /\ call'[t].out # "pending" )
        => /\ call'[t].out = "ret"
           /\ ~heap'.app.running
           /\ \A b \in BusIds : ~heap'.kb[b].running
           /\ \A q \in PubIds : ~heap'.pub[q].running
           /\ \A p \in ProducerIds :
                 heap'.prod[p] \notin {"starting", "started", "stopping"}]_vars

\* bus b has a live consume task for topic tp
HasLiveTask(h, b, tp) ==
    \E k \in Range(h.kb[b].tasks) :
        h.task[k].topic = tp /\ h.task[k].state = "live"

\* every topic in the consumers map of a running bus, with no call on the
\* bus in progress, has a live consume task
ConsumersHaveLiveTasks ==
    \A b \in BusIds :
        (heap.kb[b].exists /\ heap.kb[b].running /\ Settled(b))
            => \A tp \in DOMAIN heap.kb[b].consumers : HasLiveTask(heap, b, tp)

\* C28: while a KafkaEventBus is running, every topic in its consumers map
\* has a live consume task; in particular, after a consume task ended
\* because the consumer iterator raised, a later subscribe to that topic
\* results in a live consume task again.
C28_ConsumersHaveLiveTasks ==
    [][ /\ ConsumersHaveLiveTasks'
        /\ \A t \in Callers :
             ( /\ Calls(t) \/ Completes(t)
               /\ call'[t].op = "kb.subscribe"
               /\ call'[t].out = "ret" )
             => HasLiveTask(heap', call'[t].tgt,
                            SubscribeTopic(call'[t].args.event_types,
                                           call'[t].args.topic)) ]_vars

\* C29: a KafkaEventBus.subscribe call that fails, because the bus is not
\* running or because creating or starting the consumer fails, leaves the
\* handler map, the consumers map and the list of consume tasks as they
\* were when it was called.
C29_FailedSubscribeChangesNothing ==
    [][\A t \in Callers :
        ( /\ Calls(t) \/ Completes(t)
          /\ call'[t].op = "kb.subscribe"
          /\ call'[t].out = "raise" )
        => Subscriptions(heap', call'[t].tgt) = call'[t].pre]_vars

\* the producers whose stop() has been invoked
StopBegun(h) ==
    {p \in ProducerIds : h.prod[p] \in {"stopping", "stopped", "stop_failed"}}

\* caller t is suspended in send_and_wait of producer p
Sending(fr, t, p) == fr[t] # Idle /\ fr[t].at = "send" /\ fr[t].p = p

\* C30: no send is issued on a producer whose stop has begun: a publish
\* (KafkaEventBus.publish, KafkaEventPublisher.publish or
\* ApplicationEventBus.publish_event) that runs while a stop() is suspended
\* at an await either raises the not-running error or has completed its
\* send before the stop of the producer is invoked.
C30_NoSendOnStoppingProducer ==
    [][\A t \in Callers, p \in ProducerIds :
        /\ (Calls(t) /\ Sending(frame', t, p)) => p \notin StopBegun(heap)
        /\ (Sending(frame, t, p) /\ Sending(frame', t, p))
              => (p \in StopBegun(heap') => p \in StopBegun(heap))]_vars

====
